---- MODULE Spec2Model ----
(***************************************************************************)
(* TaskFlow CLI - the reasoning subsystem.                                 *)
(*                                                                         *)
(* The model follows src/src/agents/reasoning-agent/reasoning-engine.ts    *)
(* (ReasoningEngine), the MemoryManager listed in                          *)
(* src/docs/03-writing-specifications.md, the ReasoningAgent of            *)
(* src/unnamed/part_004, BaseAgent.execute of src/unnamed/part_011 and     *)
(* the zod schemas listed in src/README.md.                                *)
(*                                                                         *)
(* JavaScript runs one job to completion: a reason() call only gives up    *)
(* the thread at an await.  Every action below is one such synchronous     *)
(* block of one call; calls interleave between the blocks.  Hops of the    *)
(* microtask queue that touch no state are folded into the block that      *)
(* follows them.                                                           *)
(*                                                                         *)
(* Optional values (undefined / null) are sets with at most one element.   *)
(* Confidence is kept in tenths (7 stands for 0.7).                        *)
(***************************************************************************)
EXTENDS Integers, Sequences, FiniteSets, TLC

\* ---------------------------------------------------------------- bounds
MaxRequests == 2
MaxTicks == 1
MaxTasks == 3
MaxNotifications == 2

\* ------------------------------------------------------ program constants
GoalMaxLen == 1000
MinIterations == 1
MaxIterationsLimit == 100
DefaultMaxIterations == 10
MinTimeoutMs == 1000
MaxTimeoutMs == 300000
DefaultTimeoutMs == 30000
ContextListLimit == 1000
BaseConfidence == 7
OverduePenalty == 1
ConfidenceFloor == 5
FallbackConfidence == 5
FailureConfidence == 0
PendingThreshold == 5
PhasesPerIteration == 5
DefaultQueryLimit == 100
DefaultListLimit == 50
ToolListLimit == 100
WeightUrgent == 4
WeightHigh == 3
WeightMedium == 2
WeightLow == 1
DefaultWeight == 2
OverdueBoost == 2
DueSoonBoost == 1
DueSoonHours == 24
HourMs == 3600000

\* The smallest delay that outlasts the smallest timeout the validator accepts.
SlowMs == MinTimeoutMs + 1

VARIABLES store, clock, nextUuid, requests, currentSession, sessionSteps,
          stepLog, calls, tools, toolResult, toolImpl, registered,
          notifications, held, agentResponse, singletons

vars == <<store, clock, nextUuid, requests, currentSession, sessionSteps,
          stepLog, calls, tools, toolResult, toolImpl, registered,
          notifications, held, agentResponse, singletons>>

\* What lies outside the reasoning core and the task store: the array a
\* caller holds from getCurrentSteps(), the last response of an agent's
\* execute(), and the module-level singletons of the agents.
shell == <<held, agentResponse, singletons>>

\* The state of the ToolExecutor singleton and the last result a direct
\* caller of execute() received.
registry == <<tools, toolResult>>

\* ------------------------------------------------------------- data types
Phases == <<"observe", "think", "plan", "act", "reflect">>

Statuses == {"pending", "in_progress", "done", "cancelled"}

Priorities == {"low", "medium", "high", "urgent"}

\* The callers that may have a reason request in flight at the same time.
Slots == {1, 2}

Opt(s, d) == IF s = {} THEN d ELSE CHOOSE x \in s : TRUE

The(s) == CHOOSE x \in s : TRUE

Min(a, b) == IF a < b THEN a ELSE b

Max(a, b) == IF a > b THEN a ELSE b

\* String.prototype.includes for a nonempty word.
Contains(text, word) ==
    \E i \in 1..(Len(text) - Len(word) + 1) :
        SubSeq(text, i, i + Len(word) - 1) = word

\* String.prototype.toLowerCase, letter by letter.
UpperCaseLetters == "ABCDEFGHIJKLMNOPQRSTUVWXYZ"

LowerCaseLetters == "abcdefghijklmnopqrstuvwxyz"

LowerChar(ch) ==
    IF \E j \in 1..Len(UpperCaseLetters) : SubSeq(UpperCaseLetters, j, j) = ch
    THEN LET j == CHOOSE k \in 1..Len(UpperCaseLetters) :
                     SubSeq(UpperCaseLetters, k, k) = ch
         IN  SubSeq(LowerCaseLetters, j, j)
    ELSE ch

toLowerCaseIdentity(text) == text

RECURSIVE toLowerCase(_)
toLowerCase(text) ==
    IF Len(text) = 0 THEN ""
    ELSE IF Len(text) = 1 THEN LowerChar(text)
         ELSE LET half == Len(text) \div 2
              IN  toLowerCase(SubSeq(text, 1, half))
                  \o toLowerCase(SubSeq(text, half + 1, Len(text)))

\* Array.prototype.join.
RECURSIVE Join(_, _)
Join(items, sep) ==
    IF Len(items) = 0 THEN ""
    ELSE IF Len(items) = 1 THEN items[1]
         ELSE items[1] \o sep \o Join(Tail(items), sep)

\* A row of the tasks table as rowToTask returns it.  dueDate is a
\* timestamp in ms, absent for undated tasks; tags is the parsed tag list.
Task(id, priority, status, dueDate, tags) ==
    [id |-> id, title |-> "Task " \o ToString(id), priority |-> priority,
     status |-> status, dueDate |-> dueDate, tags |-> tags]

\* The task stores the model starts from, newest task first (the order of
\* listTasks).
StoreEmpty == << >>

\* Nothing overdue: an undated task and a finished one past its date.
StoreOnTime ==
    << Task(4, "medium", "done", {-1}, <<"home">>),
       Task(3, "high", "pending", {}, << >>) >>

\* A task that falls due while a call is running.
StoreDueSoon ==
    << Task(5, "high", "in_progress", {1}, <<"work">>) >>

StorePopulated ==
    << Task(2, "low", "pending", {}, <<"home">>),
       Task(1, "urgent", "pending", {-1}, <<"work", "home">>) >>

\* As many pending tasks as reflect() still accepts without comment.
StoreFivePending ==
    [i \in 1..PendingThreshold |-> Task(20 + i, "medium", "pending", {}, << >>)]

\* One pending task more, the newest one urgent and overdue.
StoreBacklog ==
    << Task(30, "urgent", "pending", {-1}, << >>) >> \o StoreFivePending

\* Goals: the number of characters and the keywords the text contains.
GoalEmpty == [len |-> 0, words |-> {}]

GoalPlain == [len |-> GoalMaxLen, words |-> {}]

GoalTooLong == [len |-> GoalMaxLen + 1, words |-> {}]

\* The words think() and plan() look for in the lower-cased goal.
Keywords ==
    {"next", "work on", "overdue", "late", "organize", "sort", "analyze", "review",
     "order"}

\* A goal given as text: its length and the keywords goalLower.includes()
\* finds in it.
GoalOfText(text) ==
    [len |-> Len(text),
     words |-> {k \in Keywords : Contains(toLowerCase(text), k)}]

GoalTexts ==
    {"Summarize my tasks",
     "What should I WORK ON Next?",
     "show Overdue items",
     "Am I running LATE",
     "Organize the backlog",
     "sort it",
     "Review this",
     "reorder, then analyze what is overdue",
     "Sort by what is late and review what comes next"}

\* The params bags of the reason requests the callers send: two that pass
\* validation (every option given, every option left to its default) and
\* one per way of failing it.
RequestDefaults ==
    [goal |-> GoalPlain, maxIterations |-> {}, timeoutMs |-> {}, includeSteps |-> {}]

RequestExplicit ==
    [goal |-> GoalPlain, maxIterations |-> {MinIterations},
     timeoutMs |-> {MinTimeoutMs}, includeSteps |-> {TRUE}]

Requests ==
    {RequestDefaults, RequestExplicit,
     [RequestDefaults EXCEPT !.goal = GoalEmpty],
     [RequestDefaults EXCEPT !.goal = GoalTooLong],
     [RequestDefaults EXCEPT !.maxIterations = {MaxIterationsLimit + 1}],
     [RequestDefaults EXCEPT !.timeoutMs = {1}]}

\* ------------------------------------------------------------- validators
ReasoningGoalSchemaNoMin(goal) == goal.len <= GoalMaxLen

ReasoningGoalSchema(goal) == goal.len >= 1 /\ goal.len <= GoalMaxLen

MaxIterationsInRange(n) == n >= MinIterations /\ n <= MaxIterationsLimit

TimeoutMsInRangePositive(n) == n >= 1 /\ n <= MaxTimeoutMs

TimeoutMsInRange(n) == n >= MinTimeoutMs /\ n <= MaxTimeoutMs

ReasoningOptionsSchema(p) ==
    /\ \A n \in p.maxIterations : MaxIterationsInRange(n)
    /\ \A n \in p.timeoutMs : TimeoutMsInRange(n)

ParsedOptions(p) ==
    [maxIterations |-> Opt(p.maxIterations, DefaultMaxIterations),
     timeoutMs |-> Opt(p.timeoutMs, DefaultTimeoutMs),
     includeSteps |-> Opt(p.includeSteps, FALSE)]

\* The message validate() throws: the goal is validated first, the options
\* after it; the issues of one schema are joined by "; ".
ValidationMessage(p) ==
    IF ~ReasoningGoalSchema(p.goal)
    THEN IF p.goal.len < 1
         THEN "Validation failed: Goal is required"
         ELSE "Validation failed: Goal must be 1000 characters or less"
    ELSE LET mi == \E n \in p.maxIterations : ~MaxIterationsInRange(n)
             to == \E n \in p.timeoutMs : ~TimeoutMsInRange(n)
         IN  IF mi /\ to
             THEN "Validation failed: maxIterations: out of range; timeoutMs: out of range"
             ELSE IF mi
                  THEN "Validation failed: maxIterations: out of range"
                  ELSE "Validation failed: timeoutMs: out of range"

\* ------------------------------------------------------------- task store
Take(seq, n) == SubSeq(seq, 1, Min(n, Len(seq)))

\* The filters of listTasks; each one is given or not.
Filters(status, priority, limit) ==
    [status |-> status, priority |-> priority, limit |-> limit]

\* listTasks(filters): the rows are kept newest first, so store is already in
\* the order of ORDER BY created_at DESC.  The LIMIT clause is added only when
\* filters.limit is truthy, and a negative LIMIT is no limit to SQLite.
listTasksWith(filters) ==
    LET rows == SelectSeq(store, LAMBDA t :
                    /\ filters.status # {} => t.status \in filters.status
                    /\ filters.priority # {} => t.priority \in filters.priority)
    IN  IF filters.limit = {} \/ The(filters.limit) = 0
        THEN rows
        ELSE IF The(filters.limit) < 0
             THEN rows
             ELSE Take(rows, The(filters.limit))

listTasks(limit) == listTasksWith(Filters({}, {}, {limit}))

getTask(id) == {store[i] : i \in {j \in 1..Len(store) : store[j].id = id}}

IsOverdue(task, now) ==
    /\ \E d \in task.dueDate : d < now
    /\ task.status \notin {"done", "cancelled"}

\* ORDER BY due_date ASC over rows that all have a due date; rows with the
\* same due date stay in the order of the store.
RECURSIVE rowsDueIn(_, _)
rowsDueIn(rows, dueDates) ==
    IF dueDates = {}
    THEN << >>
    ELSE LET earliest == CHOOSE d \in dueDates : \A e \in dueDates : d <= e
         IN  SelectSeq(rows, LAMBDA t : The(t.dueDate) = earliest)
             \o rowsDueIn(rows, dueDates \ {earliest})

sortByDueDate(rows) ==
    rowsDueIn(rows, {The(rows[i].dueDate) : i \in 1..Len(rows)})

getOverdueTasksAnyStatus(now) ==
    sortByDueDate(SelectSeq(store, LAMBDA t : \E d \in t.dueDate : d < now))

getOverdueTasks(now) == sortByDueDate(SelectSeq(store, LAMBDA t : IsOverdue(t, now)))

\* createTask(input): the rows after the INSERT; the new row is pending and
\* the newest.  input.id stands for the uuid the row gets.
createTask(input) ==
    <<Task(input.id, input.priority, "pending", input.dueDate, input.tags)>> \o store

\* The fields of an update that the model follows: the status, given or not.
UpdateInput(status) == [status |-> status]

\* updateTask(id, input): the rows after the UPDATE.  Whatever status the
\* input names is written; a missing row or an empty input changes nothing.
updateTask(id, input) ==
    [i \in 1..Len(store) |->
        IF store[i].id = id /\ input.status # {}
        THEN [store[i] EXCEPT !.status = The(input.status)]
        ELSE store[i]]

\* deleteTask(id): the rows after DELETE FROM tasks WHERE id = ?.
deleteTask(id) == SelectSeq(store, LAMBDA t : t.id # id)

keepNotifications(id) == notifications

\* FOREIGN KEY (task_id) REFERENCES tasks(id) ON DELETE CASCADE, with
\* foreign_keys = ON: the notifications left when task id is deleted.
cascadeDelete(id) == SelectSeq(notifications, LAMBDA n : n.taskId # id)

\* The foreign key of a notification to insert.
ForeignKeyHolds(taskId) == getTask(taskId) # {}

NewNotification(type, taskId) == [type |-> type, taskId |-> taskId, read |-> FALSE]

\* createNotification(type, taskId, message): the notifications after the
\* INSERT, oldest first.
createNotification(type, taskId) == Append(notifications, NewNotification(type, taskId))

\* listNotifications({}): ORDER BY created_at DESC.
listNotifications ==
    [i \in 1..Len(notifications) |-> notifications[Len(notifications) + 1 - i]]

markAllNotificationsRead ==
    [i \in 1..Len(notifications) |-> [notifications[i] EXCEPT !.read = TRUE]]

CountWhere(seq, P(_)) == Len(SelectSeq(seq, P))

calculateStats(tasks, overdueTasks) ==
    [total |-> Len(tasks),
     byStatus |-> [s \in Statuses |-> CountWhere(tasks, LAMBDA t : t.status = s)],
     byPriority |-> [p \in Priorities |-> CountWhere(tasks, LAMBDA t : t.priority = p)],
     overdueCount |-> Len(overdueTasks)]

\* ---------------------------------------------------------- MemoryManager
\* buildContext(goal) for the session the MemoryManager holds.  previousSteps
\* is a reference to the manager's history array; the array is named by the
\* session whose initializeContext created it.
buildContext(goal, session, now) ==
    LET tasks == listTasks(ContextListLimit)
        overdueTasks == getOverdueTasks(now)
    IN  [goal |-> goal,
         tasks |-> tasks,
         overdueTasks |-> overdueTasks,
         stats |-> calculateStats(tasks, overdueTasks),
         previousSteps |-> session,
         sessionId |-> session]

\* this.currentSession ?? uuidv4() (line 341).
CurrentSessionOrNew == IF currentSession = {} THEN nextUuid ELSE The(currentSession)

refreshContextLive(context, now) ==
    buildContext(context.goal, CurrentSessionOrNew, now)

refreshContext(context, now) ==
    [buildContext(context.goal, CurrentSessionOrNew, now)
        EXCEPT !.previousSteps = context.previousSteps,
               !.sessionId = context.sessionId]

\* The step the Step Log hands back for a saved step (its generated id and
\* timestamp are left out).
saveReasoningStep(sessionId, stepNumber, phase) ==
    [sessionId |-> sessionId, stepNumber |-> stepNumber, phase |-> phase]

addStepFreshSession(sessionId, stepNumber, phase) ==
    saveReasoningStep(nextUuid, stepNumber, phase)

addStep(sessionId, stepNumber, phase) ==
    saveReasoningStep(sessionId, stepNumber, phase)

getCurrentSteps == sessionSteps

\* getSessionSteps(sessionId): the steps the Step Log holds for a session.
getSessionSteps(sessionId) == {s \in stepLog : s.sessionId = sessionId}

KeepSessionSteps(steps) == steps

\* initializeContext: this.sessionSteps = [] (line 301).
NewSessionSteps(steps) == << >>

\* ------------------------------------------------------------ ToolExecutor
ToolNames ==
    {"query_tasks", "analyze_priorities", "find_overdue", "find_dependencies",
     "suggest_order", "calculate_urgency"}

\* The keys of the tools Map after the constructor, in insertion order.
BuiltInTools ==
    <<"query_tasks", "analyze_priorities", "find_overdue", "find_dependencies",
      "suggest_order", "calculate_urgency">>

\* Names a caller may register a tool under besides the built-in ones.
ExtraTools == {"export_report", "count_tags"}

\* Names nobody registers.
UnknownTools == {"unknown_tool", "find_late"}

HasTool(names, toolName) == \E i \in 1..Len(names) : names[i] = toolName

\* register(tool): Map.set - a new key goes to the end, an existing key
\* keeps its place (the tool behind it is replaced).
register(names, toolName) ==
    IF HasTool(names, toolName) THEN names ELSE Append(names, toolName)

getToolNames(names) == names

\* The Tool objects a caller registers, told apart by a number.
ToolObjects == {1, 2}

registerToolKeepFirst(impls, toolName, object) ==
    [n \in DOMAIN impls \cup {toolName} |->
        IF n \in DOMAIN impls THEN impls[n] ELSE object]

\* register(tool) on the values of the Map: this.tools.set(tool.name, tool)
\* puts the object under its name, over the object that was there.
registerTool(impls, toolName, object) ==
    [n \in DOMAIN impls \cup {toolName} |->
        IF n = toolName THEN object ELSE impls[n]]

\* What the code of a tool does when it is called: it returns a ToolResult
\* (a success, or a failure value with its error), or throws - an Error
\* with a message, or a value that is no Error.
ToolReturns == [kind |-> "returns", success |-> TRUE, message |-> ""]

ToolReturnsFailure(message) ==
    [kind |-> "returns", success |-> FALSE, message |-> message]

ToolThrows(message) == [kind |-> "throwsError", success |-> FALSE, message |-> message]

ToolThrowsOther == [kind |-> "throwsOther", success |-> FALSE, message |-> ""]

ToolOutcomes ==
    {ToolReturns, ToolReturnsFailure("Task not found"),
     ToolThrows("database is locked"), ToolThrowsOther}

executeNoCatch(names, toolName, outcome) ==
    IF ~HasTool(names, toolName)
    THEN [threw |-> FALSE, success |-> FALSE,
          error |-> {"Tool not found: " \o toolName \o ". Available: "
                     \o Join(getToolNames(names), ", ")}]
    ELSE IF outcome.kind = "returns"
         THEN [threw |-> FALSE, success |-> outcome.success,
               error |-> IF outcome.success THEN {} ELSE {outcome.message}]
         ELSE [threw |-> TRUE, success |-> FALSE, error |-> {outcome.message}]

\* execute(toolName, params) on a registry holding names: threw says whether
\* the promise it returns is rejected.
execute(names, toolName, outcome) ==
    IF ~HasTool(names, toolName)
    THEN [threw |-> FALSE, success |-> FALSE,
          error |-> {"Tool not found: " \o toolName \o ". Available: "
                     \o Join(getToolNames(names), ", ")}]
    ELSE IF outcome.kind = "returns"
         THEN [threw |-> FALSE, success |-> outcome.success,
               error |-> IF outcome.success THEN {} ELSE {outcome.message}]
         ELSE IF outcome.kind = "throwsError"
              THEN [threw |-> FALSE, success |-> FALSE, error |-> {outcome.message}]
              ELSE [threw |-> FALSE, success |-> FALSE, error |-> {"Unknown error"}]

\* The call act() makes: ok says whether the tool's own code ran through.
ToolExecute(toolName, ok) ==
    execute(tools, toolName, IF ok THEN ToolReturns ELSE ToolThrows("tool failed"))

\* ---------------------------------------------------- tool implementations
\* What a tool returns: data is present on success, error on failure.
ToolSuccess(data) == [success |-> TRUE, data |-> {data}, error |-> {}]

ToolFailure(message) == [success |-> FALSE, data |-> {}, error |-> {message}]

\* The parameters of query_tasks; each one is given or not.
QueryParams(status, priority, limit) ==
    [status |-> status, priority |-> priority, limit |-> limit]

queryTasks(params) ==
    LET limit == IF params.limit = {} THEN DefaultQueryLimit ELSE The(params.limit)
        tasks == listTasksWith(Filters(params.status, params.priority, {limit}))
    IN  ToolSuccess([tasks |-> tasks, count |-> Len(tasks)])

priorityWeights ==
    [urgent |-> WeightUrgent, high |-> WeightHigh, medium |-> WeightMedium,
     low |-> WeightLow]

urgencyScoreInclusive(task, now) ==
    LET weight == IF task.priority \in DOMAIN priorityWeights
                  THEN priorityWeights[task.priority]
                  ELSE DefaultWeight
        overdue == IF \E d \in task.dueDate : d <= now THEN OverdueBoost ELSE 0
        dueSoon == IF \E d \in task.dueDate :
                          d - now >= 0 /\ d - now <= DueSoonHours * HourMs
                   THEN DueSoonBoost
                   ELSE 0
    IN  weight + overdue + dueSoon

\* The score analyzePriorities gives one task (lines 237-251).
urgencyScore(task, now) ==
    LET weight == IF task.priority \in DOMAIN priorityWeights
                  THEN priorityWeights[task.priority]
                  ELSE DefaultWeight
        overdue == IF \E d \in task.dueDate : d < now THEN OverdueBoost ELSE 0
        dueSoon == IF \E d \in task.dueDate :
                          d - now > 0 /\ d - now < DueSoonHours * HourMs
                   THEN DueSoonBoost
                   ELSE 0
    IN  weight + overdue + dueSoon

RECURSIVE sortByScoreUnstable(_)
sortByScoreUnstable(scored) ==
    IF scored = << >>
    THEN << >>
    ELSE LET sorted == sortByScoreUnstable(SubSeq(scored, 1, Len(scored) - 1))
             entry == scored[Len(scored)]
         IN  SelectSeq(sorted, LAMBDA e : e.score > entry.score)
             \o <<entry>>
             \o SelectSeq(sorted, LAMBDA e : e.score <= entry.score)

\* scored.sort((a, b) => b.score - a.score): Array.prototype.sort is stable,
\* so entries with the same score stay in the order they had.
RECURSIVE sortByScore(_)
sortByScore(scored) ==
    IF scored = << >>
    THEN << >>
    ELSE LET sorted == sortByScore(SubSeq(scored, 1, Len(scored) - 1))
             entry == scored[Len(scored)]
         IN  SelectSeq(sorted, LAMBDA e : e.score >= entry.score)
             \o <<entry>>
             \o SelectSeq(sorted, LAMBDA e : e.score < entry.score)

\* given is params.tasks: a list the caller supplies, or nothing.
analyzePriorities(given, now) ==
    LET tasks == IF given = {}
                 THEN listTasksWith(Filters({}, {}, {ToolListLimit}))
                 ELSE The(given)
        scored == sortByScore([i \in 1..Len(tasks) |->
                      [task |-> tasks[i], score |-> urgencyScore(tasks[i], now)]])
    IN  ToolSuccess(
          [rankedTasks |-> [i \in 1..Len(scored) |->
               [id |-> scored[i].task.id,
                title |-> scored[i].task.title,
                priority |-> scored[i].task.priority,
                status |-> scored[i].task.status,
                dueDate |-> scored[i].task.dueDate,
                urgencyScore |-> scored[i].score]],
           summary |-> "Analyzed " \o ToString(Len(tasks)) \o " tasks. Top priority: "
                       \o (IF scored = << >> THEN "none" ELSE scored[1].task.title)])

Titles(tasks) == [i \in 1..Len(tasks) |-> tasks[i].title]

findOverdue(now) ==
    LET overdue == getOverdueTasks(now)
    IN  ToolSuccess(
          [tasks |-> overdue,
           count |-> Len(overdue),
           summary |-> IF Len(overdue) > 0
                       THEN "Found " \o ToString(Len(overdue)) \o " overdue task(s): "
                            \o Join(Titles(overdue), ", ")
                       ELSE "No overdue tasks found"])

HasTag(task, tag) == \E i \in 1..Len(task.tags) : task.tags[i] = tag

SharesTag(t, task) == \E i \in 1..Len(t.tags) : HasTag(task, t.tags[i])

findDependenciesWithSelf(taskId) ==
    IF getTask(taskId) = {}
    THEN ToolFailure("Task not found: " \o ToString(taskId))
    ELSE LET task == The(getTask(taskId))
             allTasks == listTasksWith(Filters({}, {}, {ToolListLimit}))
             related == SelectSeq(allTasks, LAMBDA t : SharesTag(t, task))
         IN  ToolSuccess(
               [task |-> [id |-> task.id, title |-> task.title, tags |-> task.tags],
                relatedTasks |-> [i \in 1..Len(related) |->
                    [id |-> related[i].id,
                     title |-> related[i].title,
                     tags |-> related[i].tags,
                     sharedTags |-> SelectSeq(related[i].tags,
                                              LAMBDA tag : HasTag(task, tag))]],
                summary |-> "Found " \o ToString(Len(related))
                            \o " related task(s) for \"" \o task.title \o "\""])

findDependencies(taskId) ==
    IF getTask(taskId) = {}
    THEN ToolFailure("Task not found: " \o ToString(taskId))
    ELSE LET task == The(getTask(taskId))
             allTasks == listTasksWith(Filters({}, {}, {ToolListLimit}))
             related == SelectSeq(allTasks,
                                  LAMBDA t : t.id # taskId /\ SharesTag(t, task))
         IN  ToolSuccess(
               [task |-> [id |-> task.id, title |-> task.title, tags |-> task.tags],
                relatedTasks |-> [i \in 1..Len(related) |->
                    [id |-> related[i].id,
                     title |-> related[i].title,
                     tags |-> related[i].tags,
                     sharedTags |-> SelectSeq(related[i].tags,
                                              LAMBDA tag : HasTag(task, tag))]],
                summary |-> "Found " \o ToString(Len(related))
                            \o " related task(s) for \"" \o task.title \o "\""])

suggestOrder(given, now) ==
    LET tasks == IF given = {}
                 THEN listTasksWith(Filters({"pending"}, {}, {ToolListLimit}))
                 ELSE The(given)
        ranked == The(analyzePriorities({tasks}, now).data).rankedTasks
    IN  ToolSuccess(
          [suggestedOrder |-> [i \in 1..Len(ranked) |->
               [order |-> i,
                id |-> ranked[i].id,
                title |-> ranked[i].title,
                reason |-> "Urgency score: " \o ToString(ranked[i].urgencyScore)]],
           summary |-> "Suggested order for " \o ToString(Len(tasks))
                       \o " tasks based on priority and urgency"])

calculateUrgency(given, now) == analyzePriorities(given, now)

\* -------------------------------------------------------- ReasoningEngine
Includes(goal, word) == word \in goal.words

\* think(): the thoughts array (lines 275-300).
Insights(goal) ==
    LET thoughts ==
          (IF Includes(goal, "next") \/ Includes(goal, "work on")
           THEN <<"User wants task prioritization recommendations.",
                  "Need to analyze tasks by priority and due date.">>
           ELSE << >>)
          \o (IF Includes(goal, "overdue") \/ Includes(goal, "late")
              THEN <<"User is concerned about overdue tasks.",
                     "Need to identify and analyze overdue items.">>
              ELSE << >>)
          \o (IF Includes(goal, "organize") \/ Includes(goal, "sort")
              THEN <<"User wants to organize or restructure tasks.",
                     "Need to suggest an execution order.">>
              ELSE << >>)
          \o (IF Includes(goal, "analyze") \/ Includes(goal, "review")
              THEN <<"User wants a general analysis of their tasks.",
                     "Need to provide statistics and insights.">>
              ELSE << >>)
    IN  IF Len(thoughts) = 0
        THEN <<"General task inquiry detected.",
               "Will provide overview and recommendations.">>
        ELSE thoughts

\* think(): the thought it logs and returns (lines 302-311).
think(context) ==
    Join(<<"Analysis of goal and current state:", "">>
         \o Insights(context.goal)
         \o <<"", "Key observations:",
               "- " \o ToString(context.stats.total) \o " tasks in system",
               "- " \o ToString(context.stats.overdueCount)
                    \o " overdue tasks need attention",
               "- Priority distribution shows workload balance">>,
         "\n")

TimeoutReachedNoStart(now, startTime, timeoutMs) == now > timeoutMs

TimeoutReached(now, startTime, timeoutMs) == now - startTime > timeoutMs

PlanActionsOverdueFirst(context) ==
    (IF Includes(context.goal, "overdue") \/ context.stats.overdueCount > 0
     THEN <<"find_overdue">> ELSE << >>)
    \o <<"analyze_priorities">>
    \o (IF Includes(context.goal, "next") \/ Includes(context.goal, "order")
        THEN <<"suggest_order">> ELSE << >>)

PlanActions(context) ==
    <<"analyze_priorities">>
    \o (IF Includes(context.goal, "overdue") \/ context.stats.overdueCount > 0
        THEN <<"find_overdue">> ELSE << >>)
    \o (IF Includes(context.goal, "next") \/ Includes(context.goal, "order")
        THEN <<"suggest_order">> ELSE << >>)

RecommendationsUrgentFirst(context) ==
    LET stats == context.stats
        urgentCount == stats.byPriority["urgent"]
        pendingCount == stats.byStatus["pending"]
    IN  (IF urgentCount > 0
         THEN <<"Focus on " \o ToString(urgentCount) \o " urgent task(s) first">>
         ELSE << >>)
        \o (IF stats.overdueCount > 0
            THEN <<"Address " \o ToString(stats.overdueCount)
                   \o " overdue task(s) immediately">>
            ELSE << >>)
        \o (IF stats.total > 0
            THEN (IF pendingCount >= PendingThreshold
                  THEN <<"Consider breaking down large tasks or delegating">>
                  ELSE << >>)
                 \o <<"Review and update task priorities regularly">>
            ELSE <<"No tasks found. Create some tasks to get started!">>)

RecommendationsReviewAlways(context) ==
    LET stats == context.stats
        urgentCount == stats.byPriority["urgent"]
        pendingCount == stats.byStatus["pending"]
    IN  (IF stats.overdueCount > 0
         THEN <<"Address " \o ToString(stats.overdueCount)
                \o " overdue task(s) immediately">>
         ELSE << >>)
        \o (IF urgentCount > 0
            THEN <<"Focus on " \o ToString(urgentCount) \o " urgent task(s) first">>
            ELSE << >>)
        \o (IF stats.total > 0
            THEN (IF pendingCount > PendingThreshold
                  THEN <<"Consider breaking down large tasks or delegating">>
                  ELSE << >>)
            ELSE <<"No tasks found. Create some tasks to get started!">>)
        \o <<"Review and update task priorities regularly">>

Recommendations(context) ==
    LET stats == context.stats
        urgentCount == stats.byPriority["urgent"]
        pendingCount == stats.byStatus["pending"]
    IN  (IF stats.overdueCount > 0
         THEN <<"Address " \o ToString(stats.overdueCount)
                \o " overdue task(s) immediately">>
         ELSE << >>)
        \o (IF urgentCount > 0
            THEN <<"Focus on " \o ToString(urgentCount) \o " urgent task(s) first">>
            ELSE << >>)
        \o (IF stats.total > 0
            THEN (IF pendingCount > PendingThreshold
                  THEN <<"Consider breaking down large tasks or delegating">>
                  ELSE << >>)
                 \o <<"Review and update task priorities regularly">>
            ELSE <<"No tasks found. Create some tasks to get started!">>)

RECURSIVE NumberedLines(_, _)
NumberedLines(recs, i) ==
    IF i > Len(recs) THEN ""
    ELSE "\n" \o ToString(i) \o ". " \o recs[i] \o NumberedLines(recs, i + 1)

generateSummary(context, recommendations) ==
    LET stats == context.stats
        urgentCount == stats.byPriority["urgent"]
        highCount == stats.byPriority["high"]
    IN  "Based on analysis of your " \o ToString(stats.total) \o " tasks:\n"
        \o (IF stats.overdueCount > 0
            THEN "\n(!) " \o ToString(stats.overdueCount) \o " task(s) are overdue"
            ELSE "")
        \o (IF urgentCount > 0 \/ highCount > 0
            THEN "\n(*) " \o ToString(urgentCount) \o " urgent, "
                 \o ToString(highCount) \o " high priority"
            ELSE "")
        \o "\n\nRecommendations:"
        \o NumberedLines(recommendations, 1)

reflectNoPenalty(context) ==
    LET recommendations == Recommendations(context)
    IN  [goalAchieved |-> TRUE,
         confidence |-> BaseConfidence,
         recommendations |-> recommendations,
         summary |-> generateSummary(context, recommendations),
         shouldContinue |-> FALSE]

reflectWithHistory(context) ==
    LET recommendations == Recommendations(context)
    IN  [goalAchieved |-> TRUE,
         confidence |-> IF \/ context.stats.overdueCount > 0
                           \/ Cardinality(stepLog) > PhasesPerIteration
                        THEN Max(ConfidenceFloor, BaseConfidence - OverduePenalty)
                        ELSE BaseConfidence,
         recommendations |-> recommendations,
         summary |-> generateSummary(context, recommendations),
         shouldContinue |-> FALSE]

reflect(context) ==
    LET recommendations == Recommendations(context)
    IN  [goalAchieved |-> TRUE,
         confidence |-> IF context.stats.overdueCount > 0
                        THEN Max(ConfidenceFloor, BaseConfidence - OverduePenalty)
                        ELSE BaseConfidence,
         recommendations |-> recommendations,
         summary |-> generateSummary(context, recommendations),
         shouldContinue |-> FALSE]

\* executeReasoningIteration numbers the k-th phase baseStepNumber + k.
PhaseStepNumberFromZero(baseStepNumber, k) == baseStepNumber + k - 1

PhaseStepNumber(baseStepNumber, k) == baseStepNumber + k

\* One reason() call: the promise and the locals its continuation holds.
\* recorded, toolCalls, fault, failedAt and reflected are history: the steps the call's
\* own addStep calls returned, the number of tools.execute calls it made, and
\* where an exception was raised.
IdleCall ==
    [pc |-> "idle", params |-> {}, opts |-> {}, startTime |-> 0,
     sessionId |-> 0, context |-> {}, stepNumber |-> 0, iteration |-> 0,
     reflection |-> {}, finalResult |-> {}, thought |-> "", plan |-> << >>,
     results |-> << >>,
     inflight |-> {}, thrown |-> {}, fault |-> "none", failedAt |-> 0,
     recorded |-> << >>, toolCalls |-> 0, reflected |-> {}, outcome |-> "none",
     response |-> {}]

OptsOf(r) == The(r.opts)

GoalOf(r) == The(r.params).goal

\* BaseAgent.execute wraps what handleAction returns or throws.
SuccessResponse(data) == [success |-> TRUE, data |-> {data}, error |-> {}]

FailureResponse(message) == [success |-> FALSE, data |-> {}, error |-> {message}]

\* The result reason() returns after the loop (lines 172-183).
ReasonResult(r, steps, now) ==
    [goal |-> GoalOf(r),
     result |-> IF r.finalResult = {} THEN "Reasoning completed"
                ELSE The(r.finalResult).summary,
     confidence |-> IF r.finalResult = {} THEN FallbackConfidence
                    ELSE The(r.finalResult).confidence,
     steps |-> IF OptsOf(r).includeSteps THEN steps ELSE << >>,
     recommendations |-> IF r.finalResult = {} THEN << >>
                         ELSE The(r.finalResult).recommendations,
     sessionId |-> r.sessionId,
     totalDurationMs |-> now - r.startTime]

FailureResultNoRetry(r, message, steps, now) ==
    [goal |-> GoalOf(r),
     result |-> "Reasoning failed: " \o message,
     confidence |-> FallbackConfidence,
     steps |-> IF OptsOf(r).includeSteps THEN steps ELSE << >>,
     recommendations |-> << >>,
     sessionId |-> r.sessionId,
     totalDurationMs |-> now - r.startTime]

\* The result the catch block returns (lines 157-170).
FailureResult(r, message, steps, now) ==
    [goal |-> GoalOf(r),
     result |-> "Reasoning failed: " \o message,
     confidence |-> FailureConfidence,
     steps |-> IF OptsOf(r).includeSteps THEN steps ELSE << >>,
     recommendations |-> <<"Please try again or rephrase your goal">>,
     sessionId |-> r.sessionId,
     totalDurationMs |-> now - r.startTime]

\* ---------------------------------------------------------------- actions
\* The module-level singletons before any getter has run: no registry, no
\* coordinator, no reasoning agent.
NoSingletons ==
    [registryInstance |-> {}, coordinatorInstance |-> FALSE,
     reasoningAgentInstance |-> FALSE, created |-> 0,
     last |-> [call |-> "none", name |-> {}, threw |-> {}]]

\* The tool objects of registerBuiltInTools; 0 stands for the object the
\* constructor made.
BuiltInImpl == [toolName \in ToolNames |-> 0]

\* The state outside the reasoning core after construction.
OutsideInit ==
    /\ toolImpl = BuiltInImpl
    /\ registered = [toolName \in {} |-> 0]
    /\ notifications = << >>
    /\ held = {}
    /\ agentResponse = {}
    /\ singletons = NoSingletons

Init ==
    /\ store = StorePopulated
    /\ clock = 0
    /\ nextUuid = 1
    /\ requests = 0
    /\ currentSession = {}
    /\ sessionSteps = << >>
    /\ stepLog = {}
    /\ calls = [c \in Slots |-> IdleCall]
    /\ tools = BuiltInTools
    /\ toolResult = {}
    /\ OutsideInit

\* memory.addStep inside a phase: the step is saved and pushed, or the save
\* throws and the rejection travels to the catch block of reason().
LogStep(c, r, steps, stepNumber, phase, nextPc, ok) ==
    IF ok
    THEN LET step == addStep(r.sessionId, stepNumber, phase)
         IN  /\ stepLog' = stepLog \cup {step}
             /\ sessionSteps' = Append(steps, step)
             /\ calls' = [calls EXCEPT ![c] =
                            [r EXCEPT !.pc = nextPc,
                                      !.recorded = Append(@, step)]]
    ELSE /\ stepLog' = stepLog
         /\ sessionSteps' = steps
         /\ calls' = [calls EXCEPT ![c] =
                        [r EXCEPT !.pc = "catch",
                                  !.reflection = {},
                                  !.thrown = {"saveReasoningStep failed"},
                                  !.fault = "addStep",
                                  !.failedAt = stepNumber]]

\* Lines 172-183: the loop is over, the result is returned to the agent.
Return(c, r, steps, now) ==
    /\ stepLog' = stepLog
    /\ sessionSteps' = steps
    /\ calls' = [calls EXCEPT ![c] =
                   [r EXCEPT !.pc = "done",
                             !.outcome = "returned",
                             !.response = {SuccessResponse(ReasonResult(r, steps, now))}]]

FailureReturnPurgingLog(c, r, message, steps, now) ==
    /\ stepLog' = {s \in stepLog : s.sessionId # r.sessionId}
    /\ sessionSteps' = steps
    /\ calls' = [calls EXCEPT ![c] =
                   [r EXCEPT !.pc = "done",
                             !.thrown = {},
                             !.outcome = "returned",
                             !.response =
                                {SuccessResponse(FailureResult(r, message, steps, now))}]]

\* Lines 157-170: the catch block.
FailureReturn(c, r, message, steps, now) ==
    /\ stepLog' = stepLog
    /\ sessionSteps' = steps
    /\ calls' = [calls EXCEPT ![c] =
                   [r EXCEPT !.pc = "done",
                             !.thrown = {},
                             !.outcome = "returned",
                             !.response =
                                {SuccessResponse(FailureResult(r, message, steps, now))}]]

\* Lines 127-141: the head of the for loop, up to the await of the first
\* phase.  observe() has no await of its own, so it runs in this block.
LoopTop(c, r, steps, now) ==
    IF /\ r.iteration < OptsOf(r).maxIterations
       /\ ~TimeoutReached(now, r.startTime, OptsOf(r).timeoutMs)
    THEN \E ok \in BOOLEAN :
            LogStep(c, r, steps, PhaseStepNumber(r.stepNumber, 1), "observe", "think", ok)
    ELSE Return(c, r, steps, now)

\* The time initializeContext may take.
InitDelays == {d \in {0, SlowMs} : clock + d <= MaxTicks * SlowMs}

\* agent.execute({action: 'reason', params}): validation, then
\* engine.reason() up to its first await.
AgentReasonWith(c, reqs) ==
    /\ calls[c].pc = "idle"
    /\ \A b \in Slots : b < c => calls[b].pc # "idle"
    /\ requests < MaxRequests
    /\ requests' = requests + 1
    /\ UNCHANGED <<store, registry>>
    /\ \E p \in reqs :
         IF ~(ReasoningGoalSchema(p.goal) /\ ReasoningOptionsSchema(p))
         THEN /\ calls' = [calls EXCEPT ![c] =
                             [IdleCall EXCEPT
                                !.pc = "done",
                                !.params = {p},
                                !.outcome = "rejected",
                                !.response = {FailureResponse(ValidationMessage(p))}]]
              /\ UNCHANGED <<clock, nextUuid, currentSession, sessionSteps, stepLog>>
         ELSE LET r == [IdleCall EXCEPT
                           !.params = {p},
                           !.opts = {ParsedOptions(p)},
                           !.startTime = clock,
                           !.sessionId = nextUuid]
                  memSession == nextUuid + 1
              IN  /\ nextUuid' = nextUuid + 2
                  /\ currentSession' = {memSession}
                  /\ \E d \in InitDelays, ctxOk \in BOOLEAN :
                       /\ clock' = clock + d
                       /\ IF ~ctxOk
                          THEN /\ stepLog' = stepLog
                               /\ sessionSteps' = NewSessionSteps(sessionSteps)
                               /\ calls' = [calls EXCEPT ![c] =
                                    [r EXCEPT
                                       !.pc = "done",
                                       !.fault = "initializeContext",
                                       !.outcome = "thrown",
                                       !.response = {FailureResponse("listTasks failed")}]]
                          ELSE LoopTop(c,
                                 [r EXCEPT !.context =
                                     {buildContext(p.goal, memSession, clock + d)}],
                                 NewSessionSteps(sessionSteps), clock + d)
    /\ UNCHANGED <<shell, toolImpl, registered, notifications>>

AgentReason(c) == AgentReasonWith(c, Requests)

Think(c) ==
    /\ calls[c].pc = "think"
    /\ \E ok \in BOOLEAN :
         LogStep(c, [calls[c] EXCEPT !.thought = think(The(calls[c].context))],
                 sessionSteps, PhaseStepNumber(calls[c].stepNumber, 2),
                 "think", "plan", ok)
    /\ UNCHANGED <<store, clock, nextUuid, requests, currentSession, registry>>
    /\ UNCHANGED <<shell, toolImpl, registered, notifications>>

Plan(c) ==
    /\ calls[c].pc = "plan"
    /\ \E ok \in BOOLEAN :
         LogStep(c, [calls[c] EXCEPT !.plan = PlanActions(The(calls[c].context))],
                 sessionSteps, PhaseStepNumber(calls[c].stepNumber, 3), "plan", "act", ok)
    /\ UNCHANGED <<store, clock, nextUuid, requests, currentSession, registry>>
    /\ UNCHANGED <<shell, toolImpl, registered, notifications>>

ActContinueAbortOnFailure(c, r) ==
    IF /\ Len(r.results) < Len(r.plan)
       /\ \A i \in 1..Len(r.results) : r.results[i].ok
    THEN /\ \E ok \in BOOLEAN :
              calls' = [calls EXCEPT ![c] =
                          [r EXCEPT !.pc = "tool",
                                    !.toolCalls = @ + 1,
                                    !.inflight =
                                       {ToolExecute(r.plan[Len(r.results) + 1], ok)}]]
         /\ UNCHANGED <<stepLog, sessionSteps>>
    ELSE \E ok \in BOOLEAN :
            LogStep(c, [r EXCEPT !.results = << >>], sessionSteps,
                    PhaseStepNumber(r.stepNumber, 4), "act", "reflect", ok)

\* The loop of act(): the next planned tool is executed and awaited, or,
\* after the last one, the act step is logged.
ActContinue(c, r) ==
    IF Len(r.results) < Len(r.plan)
    THEN /\ \E ok \in BOOLEAN :
              calls' = [calls EXCEPT ![c] =
                          [r EXCEPT !.pc = "tool",
                                    !.toolCalls = @ + 1,
                                    !.inflight =
                                       {ToolExecute(r.plan[Len(r.results) + 1], ok)}]]
         /\ UNCHANGED <<stepLog, sessionSteps>>
    ELSE \E ok \in BOOLEAN :
            LogStep(c, [r EXCEPT !.results = << >>], sessionSteps,
                    PhaseStepNumber(r.stepNumber, 4), "act", "reflect", ok)

Act(c) ==
    /\ calls[c].pc = "act"
    /\ ActContinue(c, [calls[c] EXCEPT !.results = << >>])
    /\ UNCHANGED <<store, clock, nextUuid, requests, currentSession, registry>>
    /\ UNCHANGED <<shell, toolImpl, registered, notifications>>

ToolReturned(c) ==
    /\ calls[c].pc = "tool"
    /\ LET r == calls[c]
           result == The(r.inflight)
           line == [tool |-> r.plan[Len(r.results) + 1], ok |-> result.success]
       IN  IF result.threw
           THEN /\ calls' = [calls EXCEPT ![c] =
                               [r EXCEPT !.pc = "catch",
                                         !.inflight = {},
                                         !.thrown = result.error,
                                         !.fault = "execute",
                                         !.failedAt = PhaseStepNumber(r.stepNumber, 4)]]
                /\ UNCHANGED <<stepLog, sessionSteps>>
           ELSE ActContinue(c, [r EXCEPT !.results = Append(@, line), !.inflight = {}])
    /\ UNCHANGED <<store, clock, nextUuid, requests, currentSession, registry>>
    /\ UNCHANGED <<shell, toolImpl, registered, notifications>>

Reflect(c) ==
    /\ calls[c].pc = "reflect"
    /\ \E ok \in BOOLEAN :
         LogStep(c, [calls[c] EXCEPT !.reflection = {reflect(The(calls[c].context))},
                                     !.reflected = calls[c].context],
                 sessionSteps, PhaseStepNumber(calls[c].stepNumber, 5), "reflect",
                 "finish", ok)
    /\ UNCHANGED <<store, clock, nextUuid, requests, currentSession, registry>>
    /\ UNCHANGED <<shell, toolImpl, registered, notifications>>

\* Lines 143-156: the iteration has returned its state.
Finish(c) ==
    /\ calls[c].pc = "finish"
    /\ LET r == [calls[c] EXCEPT !.stepNumber = @ + PhasesPerIteration]
           state == The(r.reflection)
       IN  \E ctxOk \in BOOLEAN :
             IF ~ctxOk
             THEN FailureReturn(c, [r EXCEPT !.fault = "refreshContext"],
                                "listTasks failed", sessionSteps, clock)
             ELSE LET r2 == [r EXCEPT
                               !.context = {refreshContext(The(r.context), clock)},
                               !.finalResult = {state},
                               !.reflection = {}]
                  IN  IF state.goalAchieved \/ ~state.shouldContinue
                      THEN Return(c, r2, sessionSteps, clock)
                      ELSE LoopTop(c, [r2 EXCEPT !.iteration = @ + 1],
                                   sessionSteps, clock)
    /\ UNCHANGED <<store, clock, nextUuid, requests, currentSession, registry>>
    /\ UNCHANGED <<shell, toolImpl, registered, notifications>>

\* The rejection of a phase reaches the catch block of reason().
Catch(c) ==
    /\ calls[c].pc = "catch"
    /\ FailureReturn(c, calls[c], The(calls[c].thrown), sessionSteps, clock)
    /\ UNCHANGED <<store, clock, nextUuid, requests, currentSession, registry>>
    /\ UNCHANGED <<shell, toolImpl, registered, notifications>>

\* The callers are done with their responses: once no call is in flight the
\* slots are handed back and serve later requests.
Release ==
    /\ \A c \in Slots : calls[c].pc \in {"idle", "done"}
    /\ \E c \in Slots : calls[c].pc = "done"
    /\ requests < MaxRequests
    /\ calls' = [c \in Slots |-> IdleCall]
    /\ UNCHANGED <<store, clock, nextUuid, requests, currentSession, sessionSteps,
                   stepLog, registry>>
    /\ UNCHANGED <<shell, toolImpl, registered, notifications>>

\* Wall-clock time passes between the blocks of the calls in flight.
Tick ==
    /\ clock < MaxTicks * SlowMs
    /\ \E c \in Slots : calls[c].pc \notin {"idle", "done"}
    /\ clock' = clock + SlowMs
    /\ UNCHANGED <<store, nextUuid, requests, currentSession, sessionSteps, stepLog,
                   calls, registry>>
    /\ UNCHANGED <<shell, toolImpl, registered, notifications>>

Next ==
    \/ \E c \in Slots : AgentReason(c)
    \/ \E c \in Slots : Think(c)
    \/ \E c \in Slots : Plan(c)
    \/ \E c \in Slots : Act(c)
    \/ \E c \in Slots : ToolReturned(c)
    \/ \E c \in Slots : Reflect(c)
    \/ \E c \in Slots : Finish(c)
    \/ \E c \in Slots : Catch(c)
    \/ Release
    \/ Tick

Spec == Init /\ [][Next]_vars

\* ------------------------------------------- one caller, call after call
\* The requests of a caller that awaits each answer before it sends the
\* next, as the CLI and the contract tests do: goals given as text next to
\* the requests above.
SeqRequests ==
    Requests
    \cup {[RequestDefaults EXCEPT !.goal = GoalOfText(t), !.includeSteps = {TRUE}] :
             t \in GoalTexts}

Stores ==
    {StoreEmpty, StoreOnTime, StoreDueSoon, StorePopulated, StoreFivePending,
     StoreBacklog}

SeqInit ==
    /\ store \in Stores
    /\ clock = 0
    /\ nextUuid = 1
    /\ requests = 0
    /\ currentSession = {}
    /\ sessionSteps = << >>
    /\ stepLog = {}
    /\ calls = [c \in Slots |-> IdleCall]
    /\ tools = BuiltInTools
    /\ toolResult = {}
    /\ OutsideInit

SeqNext ==
    \/ AgentReasonWith(1, SeqRequests)
    \/ Think(1)
    \/ Plan(1)
    \/ Act(1)
    \/ ToolReturned(1)
    \/ Reflect(1)
    \/ Finish(1)
    \/ Catch(1)
    \/ Release
    \/ Tick

SeqSpec == SeqInit /\ [][SeqNext]_vars

\* ------------------------------------- two callers over different stores
\* Two callers as in Spec, sending valid requests only, over each of the
\* stores of which one changes its overdue tasks as time passes.
PairRequests ==
    {RequestDefaults, [RequestDefaults EXCEPT !.goal = GoalOfText("show Overdue items")]}

PairStores == {StoreEmpty, StoreDueSoon, StorePopulated}

PairInit ==
    /\ store \in PairStores
    /\ clock = 0
    /\ nextUuid = 1
    /\ requests = 0
    /\ currentSession = {}
    /\ sessionSteps = << >>
    /\ stepLog = {}
    /\ calls = [c \in Slots |-> IdleCall]
    /\ tools = BuiltInTools
    /\ toolResult = {}
    /\ OutsideInit

PairNext ==
    \/ \E c \in Slots : AgentReasonWith(c, PairRequests)
    \/ \E c \in Slots : Think(c)
    \/ \E c \in Slots : Plan(c)
    \/ \E c \in Slots : Act(c)
    \/ \E c \in Slots : ToolReturned(c)
    \/ \E c \in Slots : Reflect(c)
    \/ \E c \in Slots : Finish(c)
    \/ \E c \in Slots : Catch(c)
    \/ Release
    \/ Tick

PairSpec == PairInit /\ [][PairNext]_vars

\* ------------------------------------------------- the ToolExecutor alone
\* A caller registers a tool: executor.register(tool).
RegisterTool ==
    /\ \E toolName \in ExtraTools \cup {BuiltInTools[1]}, object \in ToolObjects :
          /\ tools' = register(tools, toolName)
          /\ toolImpl' = registerTool(toolImpl, toolName, object)
          /\ registered' = [n \in DOMAIN registered \cup {toolName} |->
                               IF n \in DOMAIN registered /\ n # toolName
                               THEN registered[n]
                               ELSE object]
    /\ toolResult' = toolResult
    /\ UNCHANGED <<store, clock, nextUuid, requests, currentSession, sessionSteps,
                   stepLog, calls>>
    /\ UNCHANGED <<shell, notifications>>

\* A caller executes a tool by name: await executor.execute(toolName).
ExecuteTool ==
    /\ \E toolName \in ExtraTools \cup UnknownTools \cup {BuiltInTools[1]},
          outcome \in ToolOutcomes :
          toolResult' = {[toolName |-> toolName,
                          available |-> tools,
                          outcome |-> outcome,
                          ran |-> IF HasTool(tools, toolName)
                                  THEN {toolImpl[toolName]}
                                  ELSE {},
                          latest |-> registered,
                          result |-> execute(tools, toolName, outcome)]}
    /\ tools' = tools
    /\ UNCHANGED <<store, clock, nextUuid, requests, currentSession, sessionSteps,
                   stepLog, calls>>
    /\ UNCHANGED <<shell, toolImpl, registered, notifications>>

ToolNext == RegisterTool \/ ExecuteTool

ToolSpec == Init /\ [][ToolNext]_vars

\* ------------------------------------- the tools over a changing store
\* What callers of createTask pass; the id stands for the uuid of the row.
TaskCatalog ==
    { [id |-> 11, priority |-> "urgent", dueDate |-> {-1}, tags |-> <<"work", "home">>],
      [id |-> 12, priority |-> "high", dueDate |-> {0}, tags |-> <<"work">>],
      [id |-> 13, priority |-> "high", dueDate |-> {}, tags |-> << >>],
      [id |-> 14, priority |-> "low", dueDate |-> {-2}, tags |-> <<"home", "garden">>] }

UpdateStatuses == {"done", "cancelled"}

TaskIds == {input.id : input \in TaskCatalog}

UnknownTaskId == 99

QueryParamSets ==
    {QueryParams(status, priority, limit) :
        status \in {{}, {"done"}},
        priority \in {{}, {"high"}},
        limit \in {{}, {-1}, {0}, {2}}}

\* Due dates around now and around 24 hours from now.
DueDatesAround(now) ==
    {{}, {now - 1}, {now}, {now + 1},
     {now + DueSoonHours * HourMs - 1}, {now + DueSoonHours * HourMs},
     {now + DueSoonHours * HourMs + 1}}

\* Four tasks of which three have the same score.
TiedTasks(now) ==
    << Task(41, "high", "pending", {}, << >>),
       Task(42, "low", "pending", {now - 1}, << >>),
       Task(43, "urgent", "pending", {}, << >>),
       Task(44, "medium", "done", {now + 1}, << >>) >>

Reverse(seq) == [i \in 1..Len(seq) |-> seq[Len(seq) + 1 - i]]

\* One task of every priority, all with the same due date.
TasksDue(dueDate) ==
    << Task(45, "low", "pending", dueDate, << >>),
       Task(46, "urgent", "pending", dueDate, << >>),
       Task(47, "medium", "pending", dueDate, << >>),
       Task(48, "high", "pending", dueDate, << >>) >>

\* The lists a caller passes as params.tasks.
TaskLists(now) ==
    {<< >>, TiedTasks(now), Reverse(TiedTasks(now))}
    \cup {TasksDue(dueDate) : dueDate \in DueDatesAround(now)}

\* params.tasks: nothing, or one of the lists.
GivenTasks(now) == {{}} \cup {{tasks} : tasks \in TaskLists(now)}

TaskInit ==
    /\ store = StoreEmpty
    /\ clock = 0
    /\ nextUuid = 1
    /\ requests = 0
    /\ currentSession = {}
    /\ sessionSteps = << >>
    /\ stepLog = {}
    /\ calls = [c \in Slots |-> IdleCall]
    /\ tools = BuiltInTools
    /\ toolResult = {}
    /\ OutsideInit

\* storage.createTask(input): the new row is pending and the newest.  A
\* caller that changes the store has taken the result of its last tool.
CreateTask ==
    /\ Len(store) < MaxTasks
    /\ \E input \in TaskCatalog :
          /\ getTask(input.id) = {}
          /\ store' = <<Task(input.id, input.priority, "pending", input.dueDate,
                             input.tags)>> \o store
    /\ toolResult' = {}
    /\ UNCHANGED <<clock, nextUuid, requests, currentSession, sessionSteps, stepLog,
                   calls, tools>>
    /\ UNCHANGED <<shell, toolImpl, registered, notifications>>

\* storage.updateTask(id, {status}).
UpdateTask ==
    /\ \E i \in 1..Len(store), status \in UpdateStatuses :
          /\ store[i].status # status
          /\ store' = [store EXCEPT ![i].status = status]
    /\ toolResult' = {}
    /\ UNCHANGED <<clock, nextUuid, requests, currentSession, sessionSteps, stepLog,
                   calls, tools>>
    /\ UNCHANGED <<shell, toolImpl, registered, notifications>>

\* storage.deleteTask(id).
DeleteTask ==
    /\ \E i \in 1..Len(store) :
          /\ store' = SubSeq(store, 1, i - 1) \o SubSeq(store, i + 1, Len(store))
          /\ notifications' = cascadeDelete(store[i].id)
    /\ toolResult' = {}
    /\ UNCHANGED <<clock, nextUuid, requests, currentSession, sessionSteps, stepLog,
                   calls, tools>>
    /\ UNCHANGED <<shell, toolImpl, registered>>

\* An hour passes between two uses of the tools.
Elapse ==
    /\ clock < MaxTicks * HourMs
    /\ clock' = clock + HourMs
    /\ toolResult' = {}
    /\ UNCHANGED <<store, nextUuid, requests, currentSession, sessionSteps, stepLog,
                   calls, tools>>
    /\ UNCHANGED <<shell, toolImpl, registered, notifications>>

\* executor.execute(toolName, params) for a built-in tool: the result of the
\* tool's implementation, read at the current time.
Executed(toolName, params, result) ==
    /\ HasTool(tools, toolName)
    /\ toolResult' = {[toolName |-> toolName, params |-> params, result |-> result]}

QueryTasksTool ==
    /\ \E params \in QueryParamSets :
          Executed("query_tasks", params, queryTasks(params))
    /\ UNCHANGED <<store, clock, nextUuid, requests, currentSession, sessionSteps,
                   stepLog, calls, tools>>
    /\ UNCHANGED <<shell, toolImpl, registered, notifications>>

AnalyzePrioritiesTool ==
    /\ \E given \in GivenTasks(clock) :
          Executed("analyze_priorities", given, analyzePriorities(given, clock))
    /\ UNCHANGED <<store, clock, nextUuid, requests, currentSession, sessionSteps,
                   stepLog, calls, tools>>
    /\ UNCHANGED <<shell, toolImpl, registered, notifications>>

FindOverdueToolCancelling ==
    /\ Executed("find_overdue", {}, findOverdue(clock))
    /\ store' = [i \in 1..Len(store) |->
                    IF IsOverdue(store[i], clock)
                    THEN [store[i] EXCEPT !.status = "cancelled"]
                    ELSE store[i]]
    /\ UNCHANGED <<clock, nextUuid, requests, currentSession, sessionSteps,
                   stepLog, calls, tools>>
    /\ UNCHANGED <<shell, toolImpl, registered, notifications>>

FindOverdueTool ==
    /\ Executed("find_overdue", {}, findOverdue(clock))
    /\ UNCHANGED <<store, clock, nextUuid, requests, currentSession, sessionSteps,
                   stepLog, calls, tools>>
    /\ UNCHANGED <<shell, toolImpl, registered, notifications>>

FindDependenciesTool ==
    /\ \E taskId \in TaskIds \cup {UnknownTaskId} :
          Executed("find_dependencies", taskId, findDependencies(taskId))
    /\ UNCHANGED <<store, clock, nextUuid, requests, currentSession, sessionSteps,
                   stepLog, calls, tools>>
    /\ UNCHANGED <<shell, toolImpl, registered, notifications>>

SuggestOrderTool ==
    /\ \E given \in {{}, {TiedTasks(clock)}, {StoreEmpty}} :
          Executed("suggest_order", given, suggestOrder(given, clock))
    /\ UNCHANGED <<store, clock, nextUuid, requests, currentSession, sessionSteps,
                   stepLog, calls, tools>>
    /\ UNCHANGED <<shell, toolImpl, registered, notifications>>

CalculateUrgencyTool ==
    /\ \E given \in {{}, {TiedTasks(clock)}} :
          Executed("calculate_urgency", given, calculateUrgency(given, clock))
    /\ UNCHANGED <<store, clock, nextUuid, requests, currentSession, sessionSteps,
                   stepLog, calls, tools>>
    /\ UNCHANGED <<shell, toolImpl, registered, notifications>>

TaskNext ==
    \/ CreateTask
    \/ UpdateTask
    \/ DeleteTask
    \/ Elapse
    \/ QueryTasksTool
    \/ AnalyzePrioritiesTool
    \/ FindOverdueTool
    \/ FindDependenciesTool
    \/ SuggestOrderTool
    \/ CalculateUrgencyTool

TaskSpec == TaskInit /\ [][TaskNext]_vars

\* ---------------------------------- the tools and reason() over one store
\* A caller fills the store and uses the tools directly, then asks the agent.
FrameRequests == {RequestDefaults}

FrameNext ==
    \/ requests = 0 /\ TaskNext
    \/ toolResult = {} /\ AgentReasonWith(1, FrameRequests)
    \/ Think(1)
    \/ Plan(1)
    \/ Act(1)
    \/ ToolReturned(1)
    \/ Reflect(1)
    \/ Finish(1)
    \/ Catch(1)
    \/ Release
    \/ Tick

FrameSpec == TaskInit /\ [][FrameNext]_vars

\* ------------------------------------- a caller holding the steps array
\* A caller edits an array of steps at most MaxEdits times.
MaxEdits == 2

\* return this.sessionSteps: the array the caller holds is the history
\* itself.
sessionStepsItself(steps) == [alias |-> TRUE, items |-> steps, edits |-> 0]

\* [...this.sessionSteps] (line 424): a new array with the same steps.
copyOfSessionSteps(steps) == [alias |-> FALSE, items |-> steps, edits |-> 0]

\* A step no call recorded.
ForgedStep == [sessionId |-> 0, stepNumber |-> 0, phase |-> "think"]

\* Array.prototype.push, pop and reverse.
ArrayEdits == {"push", "pop", "reverse"}

editArray(items, edit) ==
    CASE edit = "push" -> Append(items, ForgedStep)
      [] edit = "pop" -> IF items = << >> THEN items
                         ELSE SubSeq(items, 1, Len(items) - 1)
      [] OTHER -> Reverse(items)

\* The caller asks the memory for the current steps.
GetCurrentSteps ==
    /\ held = {}
    /\ sessionSteps # << >>
    /\ held' = {copyOfSessionSteps(getCurrentSteps)}
    /\ UNCHANGED <<store, clock, nextUuid, requests, currentSession, sessionSteps,
                   stepLog, calls, registry, toolImpl, registered, notifications,
                   agentResponse, singletons>>

\* The caller keeps the steps array of the result it was given.
TakeResultSteps ==
    /\ held = {}
    /\ calls[1].pc = "done"
    /\ calls[1].outcome = "returned"
    /\ OptsOf(calls[1]).includeSteps
    /\ held' = {copyOfSessionSteps(The(The(calls[1].response).data).steps)}
    /\ UNCHANGED <<store, clock, nextUuid, requests, currentSession, sessionSteps,
                   stepLog, calls, registry, toolImpl, registered, notifications,
                   agentResponse, singletons>>

\* The caller pushes to, pops from or reverses the array it holds; an array
\* that is the history itself changes the history with it.
EditHeldSteps ==
    /\ held # {}
    /\ \E edit \in ArrayEdits :
          LET array == The(held)
              items == editArray(IF array.alias THEN sessionSteps ELSE array.items,
                                 edit)
          IN  /\ array.edits < MaxEdits
              /\ held' = {[array EXCEPT !.items = items, !.edits = @ + 1]}
              /\ sessionSteps' = IF array.alias THEN items ELSE sessionSteps
    /\ UNCHANGED <<store, clock, nextUuid, requests, currentSession,
                   stepLog, calls, registry, toolImpl, registered, notifications,
                   agentResponse, singletons>>

CopyRequests == {[RequestDefaults EXCEPT !.includeSteps = {TRUE}]}

CopyInit ==
    /\ store \in {StoreEmpty, StoreBacklog}
    /\ clock = 0
    /\ nextUuid = 1
    /\ requests = 0
    /\ currentSession = {}
    /\ sessionSteps = << >>
    /\ stepLog = {}
    /\ calls = [c \in Slots |-> IdleCall]
    /\ tools = BuiltInTools
    /\ toolResult = {}
    /\ OutsideInit

CopyNext ==
    \/ AgentReasonWith(1, CopyRequests)
    \/ Think(1)
    \/ Plan(1)
    \/ Act(1)
    \/ ToolReturned(1)
    \/ Reflect(1)
    \/ Finish(1)
    \/ Catch(1)
    \/ Release
    \/ GetCurrentSteps
    \/ TakeResultSteps
    \/ EditHeldSteps

CopySpec == CopyInit /\ [][CopyNext]_vars

\* --------------------------------------- contexts over stores of any size
\* One task more than buildContext lists, every one of them overdue at time 0.
StoreOverCap ==
    [i \in 1..(ContextListLimit + 1) |->
        Task(ContextListLimit + i, "medium", "pending", {-1}, {})]

StatsInit ==
    /\ store \in {StoreEmpty, StoreOverCap}
    /\ clock = 0
    /\ nextUuid = 1
    /\ requests = 0
    /\ currentSession = {}
    /\ sessionSteps = << >>
    /\ stepLog = {}
    /\ calls = [c \in Slots |-> IdleCall]
    /\ tools = BuiltInTools
    /\ toolResult = {}
    /\ OutsideInit

\* A caller fills a small store, then asks the agent, which builds its
\* context from the store in initializeContext and refreshContext.
StatsNext ==
    \/ requests = 0 /\ Len(store) <= MaxTasks /\ CreateTask
    \/ requests = 0 /\ Len(store) <= MaxTasks /\ UpdateTask
    \/ requests = 0 /\ Len(store) <= MaxTasks /\ DeleteTask
    \/ requests = 0 /\ Elapse
    \/ AgentReasonWith(1, FrameRequests)
    \/ Think(1)
    \/ Plan(1)
    \/ Act(1)
    \/ ToolReturned(1)
    \/ Reflect(1)
    \/ Finish(1)
    \/ Catch(1)
    \/ Release

StatsSpec == StatsInit /\ [][StatsNext]_vars

\* ---------------------------------------------------- the agent registry
\* At most MaxRegistries AgentRegistry objects are constructed.
MaxRegistries == 3

TheCoordinator == [name |-> "coordinator", object |-> "CoordinatorAgent"]

TheReasoningAgent == [name |-> "reasoning-agent", object |-> "ReasoningAgent"]

\* Agents a caller makes and registers itself, one of them under the name of
\* the coordinator and one under the name of a built-in agent.
CustomAgents ==
    {[name |-> name, object |-> "MyAgent"] :
        name \in {"my-agent", "coordinator", "task-agent"}}

hasAgent(agents, name) == \E i \in 1..Len(agents) : agents[i].name = name

\* AgentRegistry.register: the entries of the Map in the order they were set.
registerAgent(agents, agent) ==
    IF hasAgent(agents, agent.name)
    THEN [threw |-> {"Agent already registered: " \o agent.name}, agents |-> agents]
    ELSE [threw |-> {}, agents |-> Append(agents, agent)]

\* registerBuiltInAgents: the task agent, then the notification agent.
BuiltInAgents ==
    LET first == registerAgent(<< >>, [name |-> "task-agent", object |-> "TaskAgent"])
    IN  registerAgent(first.agents,
                      [name |-> "notification-agent",
                       object |-> "NotificationAgent"]).agents

newAgentRegistry(id) == [id |-> id, agents |-> BuiltInAgents]

getAgentRegistry(s) ==
    IF s.registryInstance = {}
    THEN [s EXCEPT !.registryInstance = {newAgentRegistry(s.created + 1)},
                   !.created = @ + 1]
    ELSE s

resetAgentRegistry(s) == [s EXCEPT !.registryInstance = {}]

\* getAgentRegistry().register(agent).
registerWithRegistry(s, call, agent) ==
    LET s1 == getAgentRegistry(s)
        registry1 == The(s1.registryInstance)
        done == registerAgent(registry1.agents, agent)
    IN  [s1 EXCEPT !.registryInstance = {[registry1 EXCEPT !.agents = done.agents]},
                   !.last = [call |-> call, name |-> {agent.name},
                             threw |-> done.threw]]

getCoordinator(s) ==
    IF s.coordinatorInstance
    THEN [s EXCEPT !.last = [call |-> "getCoordinator", name |-> {}, threw |-> {}]]
    ELSE registerWithRegistry([s EXCEPT !.coordinatorInstance = TRUE],
                              "getCoordinator", TheCoordinator)

getReasoningAgent(s) ==
    IF s.reasoningAgentInstance
    THEN [s EXCEPT !.last = [call |-> "getReasoningAgent", name |-> {}, threw |-> {}]]
    ELSE registerWithRegistry([s EXCEPT !.reasoningAgentInstance = TRUE],
                              "getReasoningAgent", TheReasoningAgent)

\* The agents of the registry getAgentRegistry() returns now.
CurrentAgents(s) == The(getAgentRegistry(s).registryInstance).agents

RegistryFrame ==
    UNCHANGED <<store, clock, nextUuid, requests, currentSession, sessionSteps,
                stepLog, calls, registry, toolImpl, registered, notifications,
                held, agentResponse>>

GetAgentRegistry ==
    /\ singletons.registryInstance = {} => singletons.created < MaxRegistries
    /\ singletons' = [getAgentRegistry(singletons) EXCEPT
                         !.last = [call |-> "getAgentRegistry", name |-> {},
                                   threw |-> {}]]
    /\ RegistryFrame

ResetAgentRegistry ==
    /\ singletons' = [resetAgentRegistry(singletons) EXCEPT
                         !.last = [call |-> "resetAgentRegistry", name |-> {},
                                   threw |-> {}]]
    /\ RegistryFrame

GetCoordinator ==
    /\ singletons.registryInstance = {} => singletons.created < MaxRegistries
    /\ singletons' = getCoordinator(singletons)
    /\ RegistryFrame

GetReasoningAgent ==
    /\ singletons.registryInstance = {} => singletons.created < MaxRegistries
    /\ singletons' = getReasoningAgent(singletons)
    /\ RegistryFrame

RegisterAgent ==
    /\ singletons.registryInstance = {} => singletons.created < MaxRegistries
    /\ \E agent \in CustomAgents :
          singletons' = registerWithRegistry(singletons, "register", agent)
    /\ RegistryFrame

RegistryNext ==
    \/ GetAgentRegistry
    \/ ResetAgentRegistry
    \/ GetCoordinator
    \/ GetReasoningAgent
    \/ RegisterAgent

RegistrySpec == Init /\ [][RegistryNext]_vars

\* ------------------------------------------------------------ the agents
AgentNames == {"task-agent", "notification-agent", "reasoning-agent"}

\* info.capabilities of each agent, in the order of its constructor.
Capabilities(agent) ==
    CASE agent = "task-agent" ->
           <<"create", "get", "update", "delete", "list", "getOverdue">>
      [] agent = "notification-agent" -> <<"notify", "list", "clear">>
      [] agent = "reasoning-agent" -> <<"reason", "getTools">>

supportsAction(agent, action) ==
    \E i \in 1..Len(Capabilities(agent)) : Capabilities(agent)[i] = action

\* The params of a request: each one is given or not.
AgentParams(id, status, input) == [id |-> id, status |-> status, input |-> input]

NoParams == AgentParams({}, {}, {})

\* What handleAction does: it returns data, leaving the rows and the
\* notifications it wrote, or it throws an Error before writing anything.
Returns(data, rows, notes) ==
    [kind |-> "returns", data |-> {data}, message |-> "", store |-> rows,
     notifications |-> notes]

Throws(message) ==
    [kind |-> "throwsError", data |-> {}, message |-> message, store |-> store,
     notifications |-> notifications]

MissingId == Throws("Missing required parameters: id")

TaskNotFound(id) == Throws("Task not found: " \o ToString(id))

taskAgentCreate(params) ==
    LET rows == createTask(The(params.input))
    IN  Returns(rows[1], rows, notifications)

taskAgentGet(params) ==
    IF params.id = {}
    THEN MissingId
    ELSE IF getTask(The(params.id)) = {}
         THEN TaskNotFound(The(params.id))
         ELSE Returns(The(getTask(The(params.id))), store, notifications)

\* storage.updateTask returns null for a missing row and the row as it is
\* after the update otherwise.
taskAgentUpdate(params) ==
    IF params.id = {}
    THEN MissingId
    ELSE IF getTask(The(params.id)) = {}
         THEN TaskNotFound(The(params.id))
         ELSE LET id == The(params.id)
                  rows == updateTask(id, UpdateInput(params.status))
                  task == rows[CHOOSE i \in 1..Len(rows) : rows[i].id = id]
              IN  Returns(task, rows, notifications)

taskAgentDeleteUnchecked(params) ==
    IF params.id = {}
    THEN MissingId
    ELSE Returns([deleted |-> TRUE, id |-> The(params.id)],
                 deleteTask(The(params.id)), cascadeDelete(The(params.id)))

taskAgentDelete(params) ==
    IF params.id = {}
    THEN MissingId
    ELSE IF getTask(The(params.id)) = {}
         THEN TaskNotFound(The(params.id))
         ELSE Returns([deleted |-> TRUE, id |-> The(params.id)],
                      deleteTask(The(params.id)), cascadeDelete(The(params.id)))

taskAgentList(params) ==
    Returns(listTasksWith(Filters({}, {}, {DefaultListLimit})), store, notifications)

taskAgentGetOverdue(now) == Returns(getOverdueTasks(now), store, notifications)

\* NotificationAgent.createNotification: the INSERT fails on the foreign key
\* when no task has the id.
notificationAgentNotify(params) ==
    IF params.id = {}
    THEN Throws("Missing required parameters: taskId")
    ELSE IF ~ForeignKeyHolds(The(params.id))
         THEN Throws("FOREIGN KEY constraint failed")
         ELSE Returns(NewNotification("task_updated", The(params.id)), store,
                      createNotification("task_updated", The(params.id)))

notificationAgentList == Returns(listNotifications, store, notifications)

notificationAgentClear ==
    Returns([cleared |-> Len(SelectSeq(notifications, LAMBDA n : ~n.read))], store,
            markAllNotificationsRead)

reasoningAgentGetTools == Returns([tools |-> getToolNames(tools)], store, notifications)

UnknownAction(action) == Throws("Unknown action: " \o action)

\* handleAction(action, params) of each agent: the switch over the action.
handleAction(agent, action, params, now) ==
    CASE agent = "task-agent" /\ action = "create" -> taskAgentCreate(params)
      [] agent = "task-agent" /\ action = "get" -> taskAgentGet(params)
      [] agent = "task-agent" /\ action = "update" -> taskAgentUpdate(params)
      [] agent = "task-agent" /\ action = "delete" -> taskAgentDelete(params)
      [] agent = "task-agent" /\ action = "list" -> taskAgentList(params)
      [] agent = "task-agent" /\ action = "getOverdue" -> taskAgentGetOverdue(now)
      [] agent = "notification-agent" /\ action = "notify" ->
           notificationAgentNotify(params)
      [] agent = "notification-agent" /\ action = "list" -> notificationAgentList
      [] agent = "notification-agent" /\ action = "clear" -> notificationAgentClear
      [] agent = "reasoning-agent" /\ action = "getTools" -> reasoningAgentGetTools
      [] OTHER -> UnknownAction(action)

AgentSuccess(agent, action, data) ==
    [success |-> TRUE, agent |-> agent, action |-> action, data |-> data, error |-> {}]

AgentFailure(agent, action, message) ==
    [success |-> FALSE, agent |-> agent, action |-> action, data |-> {},
     error |-> {message}]

baseExecuteUnchecked(agent, action, params, now) ==
    LET outcome == handleAction(agent, action, params, now)
    IN  [handled |-> TRUE, threw |-> FALSE, outcome |-> outcome.kind,
         message |-> outcome.message, store |-> outcome.store, notifications |-> outcome.notifications,
         response |-> IF outcome.kind = "returns"
                      THEN AgentSuccess(agent, action, outcome.data)
                      ELSE AgentFailure(agent, action, outcome.message)]

\* BaseAgent.execute(request): handled says whether handleAction was called,
\* threw whether the promise is rejected.
baseExecute(agent, action, params, now) ==
    IF ~supportsAction(agent, action)
    THEN [handled |-> FALSE, threw |-> FALSE, outcome |-> "none",
          message |-> "", store |-> store, notifications |-> notifications,
          response |-> AgentFailure(agent, action,
                          "Action '" \o action \o "' not supported. Available: "
                          \o Join(Capabilities(agent), ", "))]
    ELSE LET outcome == handleAction(agent, action, params, now)
         IN  [handled |-> TRUE, threw |-> FALSE, outcome |-> outcome.kind,
              message |-> outcome.message, store |-> outcome.store, notifications |-> outcome.notifications,
              response |-> IF outcome.kind = "returns"
                           THEN AgentSuccess(agent, action, outcome.data)
                           ELSE IF outcome.kind = "throwsError"
                                THEN AgentFailure(agent, action, outcome.message)
                                ELSE AgentFailure(agent, action, "Unknown error")]

\* What callers of the task agent's create pass.
AgentCatalog == {input \in TaskCatalog : input.id \in {11, 12}}

\* The ids callers name: those of the catalog and one no task has.
RequestIds == {input.id : input \in AgentCatalog} \cup {UnknownTaskId}

\* The actions callers ask an agent for: its own, one that no agent has and
\* one that another agent has.
AgentActions(agent) ==
    {Capabilities(agent)[i] : i \in 1..Len(Capabilities(agent))}
    \cup {"archive"}
    \cup (IF agent = "notification-agent" THEN {"delete"} ELSE {"notify"})

\* The params callers send with an action.
ParamsFor(agent, action) ==
    CASE ~supportsAction(agent, action) -> {NoParams}
      [] action = "create" -> {AgentParams({}, {}, {input}) : input \in AgentCatalog}
      [] action = "update" ->
           {AgentParams({id}, status, {}) :
               id \in RequestIds, status \in {{}} \cup {{st} : st \in Statuses}}
           \cup {NoParams}
      [] action \in {"get", "delete", "notify"} ->
           {AgentParams({id}, {}, {}) : id \in RequestIds} \cup {NoParams}
      [] OTHER -> {NoParams}

AgentInit ==
    /\ store = StoreEmpty
    /\ clock = 0
    /\ nextUuid = 1
    /\ requests = 0
    /\ currentSession = {}
    /\ sessionSteps = << >>
    /\ stepLog = {}
    /\ calls = [c \in Slots |-> IdleCall]
    /\ tools = BuiltInTools
    /\ toolResult = {}
    /\ OutsideInit

\* agent.execute({action, params}) on one of the agents, for every action
\* but the reasoning agent's reason, which is the action AgentReason.
AgentExecute ==
    /\ \E agent \in AgentNames :
        \E action \in AgentActions(agent) :
          /\ ~(agent = "reasoning-agent" /\ action = "reason")
          /\ \E params \in ParamsFor(agent, action) :
                LET done == baseExecute(agent, action, params, clock)
                IN  /\ action = "create" /\ done.handled
                          => /\ Len(store) < MaxTasks
                             /\ getTask(The(params.input).id) = {}
                    /\ action = "notify" /\ done.handled
                          => Len(notifications) < MaxNotifications
                    /\ agentResponse' = {[agent |-> agent, action |-> action,
                                           params |-> params,
                                           handled |-> done.handled,
                                           threw |-> done.threw,
                                           outcome |-> done.outcome,
                                           message |-> done.message,
                                           response |-> done.response]}
                    /\ store' = done.store
                    /\ notifications' = done.notifications
    /\ UNCHANGED <<clock, nextUuid, requests, currentSession, sessionSteps, stepLog,
                   calls, tools, toolResult, toolImpl, registered, held, singletons>>

AgentNext == AgentExecute

AgentSpec == AgentInit /\ [][AgentNext]_vars

\* ------------------------------------------------------------ properties
InFlight(c) == calls[c].pc \notin {"idle", "done"}

Returned(c) == calls[c].pc = "done" /\ calls[c].outcome = "returned"

ResponseOf(c) == The(calls[c].response)

ResultOf(c) == The(ResponseOf(c).data)

ParamsOf(c) == The(calls[c].params)

RetryRecommendation == <<"Please try again or rephrase your goal">>

\* The loop ended without an exception and without any finished iteration:
\* the timeout check at the top of the first iteration fired.
TimedOutBeforeFirstIteration(c) ==
    /\ Returned(c)
    /\ calls[c].fault = "none"
    /\ calls[c].finalResult = {}

\* The loop ended without an exception after a finished iteration.
CompletedRun(c) ==
    /\ Returned(c)
    /\ calls[c].fault = "none"
    /\ calls[c].finalResult # {}

\* C1: session isolation under concurrency - a call that asked for its steps
\* and returns while another call is in flight returns exactly the steps it
\* recorded itself, none of the other session and none of its own missing.
C1_SessionIsolation ==
    \A c \in Slots :
        (/\ Returned(c)
         /\ OptsOf(calls[c]).includeSteps
         /\ \E b \in Slots \ {c} : InFlight(b))
        => ResultOf(c).steps = calls[c].recorded

\* C2: an exception raised inside a phase never leaves reason(): the call
\* runs no further phase and ends with exactly one result of confidence 0,
\* whose text names the failure and whose only recommendation is to retry.
C2_PhaseFailureBecomesResult ==
    \A c \in Slots :
        calls[c].fault = "addStep"
        => /\ calls[c].pc \in {"catch", "done"}
           /\ Len(calls[c].recorded) = calls[c].failedAt - 1
           /\ calls[c].pc = "done"
              => /\ calls[c].outcome = "returned"
                 /\ Cardinality(calls[c].response) = 1
                 /\ ResponseOf(c).success
                 /\ Cardinality(ResponseOf(c).data) = 1
                 /\ ResultOf(c).confidence = 0
                 /\ ResultOf(c).result = "Reasoning failed: saveReasoningStep failed"
                 /\ ResultOf(c).recommendations = RetryRecommendation

C2_Witness ==
    \E c \in Slots :
        /\ calls[c].fault = "addStep"
        /\ calls[c].failedAt = 3
        /\ calls[c].pc = "done"

\* C3: a failure of context construction, in initializeContext or in
\* refreshContext, ends the call with a failure result (confidence 0, retry
\* recommendation) and is never thrown to the caller of reason().
C3_ContextFailureBecomesResult ==
    \A c \in Slots :
        (calls[c].pc = "done" /\ calls[c].fault \in {"initializeContext", "refreshContext"})
        => /\ calls[c].outcome = "returned"
           /\ ResultOf(c).confidence = 0
           /\ ResultOf(c).recommendations = RetryRecommendation

\* C4: a request with an empty goal, a goal of more than 1000 characters or
\* maxIterations above 100 is answered with a failure response in the step
\* that receives it; no session id is drawn, the Context Builder's session
\* and history and the Step Log stay as they were.
C4_InvalidRequestRejected ==
    [][\A c \in Slots :
          (/\ calls[c].pc = "idle"
           /\ calls'[c].pc # "idle"
           /\ LET p == The(calls'[c].params)
              IN  \/ p.goal.len = 0
                  \/ p.goal.len > 1000
                  \/ \E n \in p.maxIterations : n > 100)
          => /\ calls'[c].pc = "done"
             /\ calls'[c].outcome = "rejected"
             /\ ~The(calls'[c].response).success
             /\ The(calls'[c].response).data = {}
             /\ calls'[c].sessionId = 0
             /\ calls'[c].recorded = << >>
             /\ UNCHANGED <<nextUuid, currentSession, sessionSteps, stepLog>>]_vars

C4_Witness ==
    \E c \in Slots :
        /\ calls[c].outcome = "rejected"
        /\ ParamsOf(c).goal.len = 0
        /\ stepLog # {}

\* C5: the k-th step a call records has stepNumber k and the phase observe,
\* think, plan, act, reflect for k mod 5 = 1, 2, 3, 4, 0; a finished
\* iteration has recorded exactly five steps.
C5_PhaseSequence ==
    \A c \in Slots :
        LET rec == calls[c].recorded
        IN  /\ \A k \in 1..Len(rec) :
                 /\ rec[k].stepNumber = k
                 /\ rec[k].phase =
                       CASE k % 5 = 1 -> "observe"
                         [] k % 5 = 2 -> "think"
                         [] k % 5 = 3 -> "plan"
                         [] k % 5 = 4 -> "act"
                         [] k % 5 = 0 -> "reflect"
            /\ calls[c].pc = "finish" => Len(rec) = calls[c].stepNumber + 5
            /\ calls[c].finalResult # {} => Len(rec) = 5 * (calls[c].iteration + 1)

C5_Witness ==
    \E c \in Slots :
        /\ CompletedRun(c)
        /\ Len(calls[c].recorded) = 5

\* C6: all steps a call records carry one sessionId, the sessionId of the
\* result it returns, and no other call - in flight, finished or gone - has
\* logged a step under that sessionId.
C6_SessionIdStable ==
    \A c \in Slots :
        LET rec == calls[c].recorded
        IN  /\ \A j, k \in 1..Len(rec) : rec[j].sessionId = rec[k].sessionId
            /\ Returned(c)
               => \A k \in 1..Len(rec) : rec[k].sessionId = ResultOf(c).sessionId
            /\ \A b \in Slots \ {c} :
                 (Returned(b) /\ Returned(c))
                 => ResultOf(b).sessionId # ResultOf(c).sessionId
            /\ calls[c].sessionId # 0
               => \A s \in stepLog :
                     s.sessionId = calls[c].sessionId
                     => \E k \in 1..Len(rec) : rec[k] = s

C6_Witness ==
    \E b, c \in Slots :
        /\ b # c
        /\ CompletedRun(b)
        /\ CompletedRun(c)

\* C7: a call that neither fails nor times out stops after its first
\* iteration whatever maxIterations is: it has recorded exactly 5 steps, and
\* with maxIterations = 1 and includeSteps its result carries at most 5.
C7_StopsAfterFirstIteration ==
    \A c \in Slots :
        CompletedRun(c)
        => /\ calls[c].iteration = 0
           /\ calls[c].iteration < OptsOf(calls[c]).maxIterations
           /\ Len(calls[c].recorded) = 5
           /\ (ParamsOf(c).maxIterations = {1} /\ OptsOf(calls[c]).includeSteps)
              => Len(ResultOf(c).steps) <= 5

C9_NoIterationResultIsExplicit ==
    \A c \in Slots :
        TimedOutBeforeFirstIteration(c)
        => /\ calls[c].recorded = << >>
           /\ ResultOf(c).result # "Reasoning completed"
           /\ \A b \in Slots :
                CompletedRun(b)
                => /\ ResultOf(b).result # ResultOf(c).result
                   /\ ResultOf(b).recommendations # ResultOf(c).recommendations

C14_ExecuteNeverThrows ==
    \A t \in toolResult :
        /\ ~t.result.threw
        /\ ~HasTool(t.available, t.toolName)
           => /\ ~t.result.success
              /\ \A e \in t.result.error :
                    /\ Contains(e, t.toolName)
                    /\ \A i \in 1..Len(t.available) : Contains(e, t.available[i])
              /\ Cardinality(t.result.error) = 1
        /\ (HasTool(t.available, t.toolName) /\ t.outcome.kind = "throwsError")
           => /\ ~t.result.success
              /\ t.result.error = {t.outcome.message}
        /\ (HasTool(t.available, t.toolName) /\ t.outcome.kind = "throwsOther")
           => /\ ~t.result.success
              /\ Cardinality(t.result.error) = 1

C14_Witness ==
    \E t \in toolResult :
        /\ t.toolName = "unknown_tool"
        /\ Len(t.available) = Len(BuiltInTools) + 2
        /\ ~t.result.success

\* C11: the steps of a result are the steps its call recorded when
\* includeSteps is true and none when it is false, whether the call
\* succeeded, timed out or failed; in both cases every step the call
\* recorded is in the Step Log.
C11_StepsFollowIncludeSteps ==
    \A c \in Slots :
        Returned(c)
        => /\ ResultOf(c).steps =
                 IF OptsOf(calls[c]).includeSteps THEN calls[c].recorded ELSE << >>
           /\ \A k \in 1..Len(calls[c].recorded) : calls[c].recorded[k] \in stepLog

\* C12: when every call returns before the next starts, the in-memory
\* history never holds a step of an earlier session: while a call runs the
\* history is what that call recorded, and the steps it returns are exactly
\* its own, whatever became of the calls before it.
C12_SequentialSessionReset ==
    \A c \in Slots :
        /\ InFlight(c) => sessionSteps = calls[c].recorded
        /\ (Returned(c) /\ OptsOf(calls[c]).includeSteps)
           => ResultOf(c).steps = calls[c].recorded

C12_Witness ==
    \E c \in Slots :
        /\ CompletedRun(c)
        /\ OptsOf(calls[c]).includeSteps
        /\ Len(ResultOf(c).steps) = 5
        /\ \E s \in stepLog : s.sessionId # calls[c].sessionId

\* C13: the Step Log only grows: no step of the system removes or changes a
\* saved step, every saved step stays retrievable under its sessionId, and every
\* step a call recorded - also a call that then failed - is in the log.
C13_StepLogAppendOnly ==
    [][/\ stepLog \subseteq stepLog'
       /\ \A s \in stepLog : \A id \in {s.sessionId} : s \in getSessionSteps(id)'
       /\ \A c \in Slots : \A id \in {calls[c].sessionId} :
             \A k \in 1..Len(calls[c].recorded) :
                calls[c].recorded[k] \in getSessionSteps(id)'
       /\ \A c \in Slots : \A k \in 1..Len(calls'[c].recorded) :
             calls'[c].recorded[k] \in stepLog']_vars

C13_Witness ==
    \E c \in Slots :
        /\ calls[c].pc = "done"
        /\ calls[c].fault = "addStep"
        /\ Len(calls[c].recorded) = 2
        /\ calls[c].recorded[1] \in stepLog
        /\ \E s \in stepLog : s.sessionId # calls[c].sessionId

\* C15: act() executes the planned actions one at a time in plan order,
\* each exactly once: while a tool is awaited the transcript holds one line
\* for each action before it, in plan order, and the number of execute
\* calls is one more; a result, success or failure, adds its line and the
\* next planned action follows, and only after the last one the act step is
\* logged and the call goes on to reflect (or to the catch block when that
\* logging fails).
C15_ActRunsWholePlan ==
    [][\A c \in Slots :
          /\ (calls[c].pc = "act" /\ calls'[c] # calls[c])
             => /\ calls'[c].pc = "tool"
                /\ calls'[c].toolCalls = 1
                /\ calls'[c].results = << >>
          /\ calls[c].pc = "tool"
             => /\ Len(calls[c].results) < Len(calls[c].plan)
                /\ calls[c].toolCalls = Len(calls[c].results) + 1
                /\ \A i \in 1..Len(calls[c].results) :
                      calls[c].results[i].tool = calls[c].plan[i]
          /\ (calls[c].pc = "tool" /\ calls'[c] # calls[c])
             => LET n == Len(calls[c].results)
                    line == [tool |-> calls[c].plan[n + 1],
                             ok |-> The(calls[c].inflight).success]
                IN  IF n + 1 < Len(calls[c].plan)
                    THEN /\ calls'[c].pc = "tool"
                         /\ calls'[c].results = Append(calls[c].results, line)
                         /\ calls'[c].toolCalls = n + 2
                    ELSE /\ calls'[c].pc \in {"reflect", "catch"}
                         /\ calls'[c].toolCalls = Len(calls[c].plan)
                         /\ calls'[c].pc = "catch" => calls'[c].fault = "addStep"]_vars

C15_Witness ==
    \E c \in Slots :
        /\ calls[c].pc = "reflect"
        /\ Len(calls[c].plan) = 3
        /\ calls[c].toolCalls = 3

\* The tools of a call's plan.
PlannedTools(c) == {calls[c].plan[i] : i \in 1..Len(calls[c].plan)}

\* The call has planned and its context is still the one plan() saw.
HasPlanned(c) == calls[c].pc \in {"act", "tool", "reflect", "finish"}

\* C16: find_overdue is planned exactly when the goal contains "overdue" or
\* "late" or the context counts at least one overdue task.
C16_FindOverdueOnDeadlineIntent ==
    \A c \in Slots :
        HasPlanned(c)
        => ("find_overdue" \in PlannedTools(c)
            <=> \/ "overdue" \in GoalOf(calls[c]).words
                \/ "late" \in GoalOf(calls[c]).words
                \/ The(calls[c].context).stats.overdueCount > 0)

\* C17: suggest_order is planned exactly when the goal contains "organize",
\* "sort", "next" or "order".
C17_SuggestOrderOnOrderingIntent ==
    \A c \in Slots :
        HasPlanned(c)
        => ("suggest_order" \in PlannedTools(c)
            <=> GoalOf(calls[c]).words \cap {"organize", "sort", "next", "order"} # {})

\* C18: every plan starts with analyze_priorities, names no tool twice,
\* keeps the order analyze_priorities, find_overdue, suggest_order and names
\* only registered tools; no planned action comes back as 'Tool not found'.
C18_PlanShape ==
    \A c \in Slots :
        /\ HasPlanned(c)
           => LET plan == calls[c].plan
                  order == <<"analyze_priorities", "find_overdue", "suggest_order">>
                  rank(t) == CHOOSE k \in 1..Len(order) : order[k] = t
              IN  /\ Len(plan) >= 1
                  /\ plan[1] = "analyze_priorities"
                  /\ \A i \in 1..Len(plan) :
                        /\ \E k \in 1..Len(order) : order[k] = plan[i]
                        /\ HasTool(tools, plan[i])
                  /\ \A i, j \in 1..Len(plan) : i < j => rank(plan[i]) < rank(plan[j])
        /\ \A t \in calls[c].inflight : \A e \in t.error : ~Contains(e, "Tool not found")

C18_Witness ==
    \E c \in Slots :
        /\ calls[c].pc = "tool"
        /\ calls[c].plan = <<"analyze_priorities", "find_overdue", "suggest_order">>
        /\ Len(calls[c].results) = 2

\* The keywords goalLower.includes() finds in each goal text.
KeywordsFound == [t \in GoalTexts |-> GoalOfText(t).words]

\* The keywords a reader finds in each goal text, ignoring case.
KeywordsRead ==
    [t \in GoalTexts |->
        CASE t = "Summarize my tasks" -> {}
          [] t = "What should I WORK ON Next?" -> {"work on", "next"}
          [] t = "show Overdue items" -> {"overdue"}
          [] t = "Am I running LATE" -> {"late"}
          [] t = "Organize the backlog" -> {"organize"}
          [] t = "sort it" -> {"sort"}
          [] t = "Review this" -> {"review"}
          [] t = "reorder, then analyze what is overdue" -> {"order", "analyze", "overdue"}
          [] t = "Sort by what is late and review what comes next"
               -> {"sort", "late", "review", "next"}]

\* The first position of word in text, 0 when it does not occur.
IndexOf(text, word) ==
    IF Contains(text, word)
    THEN CHOOSE i \in 1..Len(text) :
            /\ SubSeq(text, i, i + Len(word) - 1) = word
            /\ \A j \in 1..(i - 1) : SubSeq(text, j, j + Len(word) - 1) # word
    ELSE 0

\* The first insight of each category, in the order of the categories.
CategoryInsights ==
    <<"User wants task prioritization recommendations.",
      "User is concerned about overdue tasks.",
      "User wants to organize or restructure tasks.",
      "User wants a general analysis of their tasks.">>

CategoryKeywords ==
    <<{"next", "work on"}, {"overdue", "late"}, {"organize", "sort"},
      {"analyze", "review"}>>

\* C19: the keywords found in a goal are those it contains as substrings
\* whatever their case; the thought of think() holds the insight of every
\* category with a keyword in the goal and of no other, in category order,
\* and the generic insight exactly when no category matched.
C19_ThinkAccumulatesIntents ==
    /\ KeywordsFound = KeywordsRead
    /\ \A c \in Slots :
          calls[c].pc = "plan"
          => LET thought == calls[c].thought
                 words == GoalOf(calls[c]).words
                 matched(k) == CategoryKeywords[k] \cap words # {}
             IN  /\ \A k \in 1..4 : Contains(thought, CategoryInsights[k]) <=> matched(k)
                 /\ \A j, k \in 1..4 :
                       (j < k /\ matched(j) /\ matched(k))
                       => IndexOf(thought, CategoryInsights[j])
                            < IndexOf(thought, CategoryInsights[k])
                 /\ Contains(thought, "General task inquiry detected.")
                       <=> \A k \in 1..4 : ~matched(k)

C19_Witness ==
    \E c \in Slots :
        /\ calls[c].pc = "plan"
        /\ GoalOf(calls[c]) = GoalOfText("Sort by what is late and review what comes next")
        /\ Contains(calls[c].thought, "User is concerned about overdue tasks.")
        /\ Contains(calls[c].thought, "User wants a general analysis of their tasks.")

StoreCount(P(_)) == Cardinality({i \in 1..Len(store) : P(store[i])})

\* C21: with at least one task in the store the recommendations of a
\* reflection are, in this order, the address-overdue line iff the context
\* counts an overdue task, the focus-on-urgent line iff the store holds an
\* urgent task, the break-down line iff it holds more than 5 pending tasks,
\* and always the review line at the end; a completed call returns them.
C21_RecommendationsWithTasks ==
    \A c \in Slots :
        LET urgent == StoreCount(LAMBDA t : t.priority = "urgent")
            pending == StoreCount(LAMBDA t : t.status = "pending")
            overdue == Len(The(calls[c].context).overdueTasks)
            expected ==
                (IF overdue > 0
                 THEN <<"Address " \o ToString(overdue) \o " overdue task(s) immediately">>
                 ELSE << >>)
                \o (IF urgent > 0
                    THEN <<"Focus on " \o ToString(urgent) \o " urgent task(s) first">>
                    ELSE << >>)
                \o (IF pending > 5
                    THEN <<"Consider breaking down large tasks or delegating">>
                    ELSE << >>)
                \o <<"Review and update task priorities regularly">>
        IN  /\ (calls[c].pc = "finish" /\ Len(store) > 0)
               => The(calls[c].reflection).recommendations = expected
            /\ (CompletedRun(c) /\ Len(store) > 0)
               => LET recs == ResultOf(c).recommendations
                  IN  /\ recs = The(calls[c].finalResult).recommendations
                      /\ Len(recs) >= 1
                      /\ recs[Len(recs)] = "Review and update task priorities regularly"

C21_Witness ==
    \E c \in Slots :
        /\ CompletedRun(c)
        /\ store = StoreBacklog
        /\ Len(ResultOf(c).recommendations) = 4

\* C22: against an empty store a call that runs its iteration succeeds
\* whatever its goal, its only recommendation is to create tasks, and the
\* result text or a recommendation says "no tasks" (in any case).
C22_RecommendationsWithoutTasks ==
    \A c \in Slots :
        /\ (calls[c].pc = "finish" /\ Len(store) = 0)
           => The(calls[c].reflection).recommendations =
                 <<"No tasks found. Create some tasks to get started!">>
        /\ (CompletedRun(c) /\ Len(store) = 0)
           => LET recs == ResultOf(c).recommendations
              IN  /\ ResponseOf(c).success
                  /\ Len(recs) = 1
                  /\ \/ Contains(toLowerCase(ResultOf(c).result), "no tasks")
                     \/ \E i \in 1..Len(recs) : Contains(toLowerCase(recs[i]), "no tasks")
                  /\ ~\E i \in 1..Len(recs) :
                        \/ Contains(recs[i], "overdue")
                        \/ Contains(recs[i], "urgent")
                        \/ Contains(recs[i], "breaking down")
                        \/ Contains(recs[i], "Review")

C22_Witness ==
    \E c \in Slots :
        /\ CompletedRun(c)
        /\ Len(store) = 0
        /\ GoalOf(calls[c]) = GoalOfText("What should I WORK ON Next?")

\* C23: two calls with the same request whose reflections saw the same
\* tasks and the same overdue tasks (the same store at the same time) return
\* the same recommendations and the same confidence, whether they ran one
\* after the other or interleaved, and whatever was logged before them.
C23_Determinism ==
    \A b, c \in Slots :
        (/\ CompletedRun(b)
         /\ CompletedRun(c)
         /\ ParamsOf(b) = ParamsOf(c)
         /\ The(calls[b].reflected).tasks = The(calls[c].reflected).tasks
         /\ The(calls[b].reflected).overdueTasks = The(calls[c].reflected).overdueTasks)
        => /\ ResultOf(b).recommendations = ResultOf(c).recommendations
           /\ ResultOf(b).confidence = ResultOf(c).confidence

C23_Witness ==
    \E b, c \in Slots :
        /\ CompletedRun(b)
        /\ CompletedRun(c)
        /\ ParamsOf(b) = ParamsOf(c)
        /\ calls[b].startTime < calls[c].startTime
        /\ The(calls[b].reflected).overdueTasks = The(calls[c].reflected).overdueTasks
        /\ ResultOf(b).sessionId # ResultOf(c).sessionId
        /\ store = StorePopulated

\* C30: the context a call holds after refreshContext has the goal, the
\* sessionId and the previousSteps of the context it held before, and the
\* tasks, overdue tasks and statistics of the store as it is now; the
\* refresh leaves the manager's session id and step history alone.
C30_RefreshContext ==
    [][\A c \in Slots :
          (/\ calls[c].pc = "finish"
           /\ calls'[c].pc = "done"
           /\ calls'[c].fault = "none")
          => LET old == The(calls[c].context)
                 new == The(calls'[c].context)
                 overdue == {i \in 1..Len(store) :
                               /\ \E d \in store[i].dueDate : d < clock
                               /\ store[i].status \notin {"done", "cancelled"}}
             IN  /\ new.goal = old.goal
                 /\ new.sessionId = old.sessionId
                 /\ new.previousSteps = old.previousSteps
                 /\ new.tasks = store
                 /\ {new.overdueTasks[i].id : i \in 1..Len(new.overdueTasks)}
                       = {store[i].id : i \in overdue}
                 /\ Len(new.overdueTasks) = Cardinality(overdue)
                 /\ new.stats.total = Len(store)
                 /\ new.stats.overdueCount = Cardinality(overdue)
                 /\ currentSession' = currentSession
                 /\ sessionSteps' = sessionSteps]_vars

C30_Witness ==
    \E c \in Slots :
        /\ CompletedRun(c)
        /\ The(calls[c].reflected).stats.overdueCount = 0
        /\ The(calls[c].context).stats.overdueCount = 1
        /\ currentSession # {The(calls[c].context).sessionId}

\* C24: no step of a reason() call and no execution of a built-in tool
\* changes the task store: the tasks, their order and their fields are after
\* the step what they were before it.
C24_StoreReadOnly ==
    [][(toolResult' # {} \/ calls' # calls) => store' = store]_vars

C24_Witness ==
    /\ Len(store) = MaxTasks
    /\ \E i \in 1..Len(store) : store[i].status = "done"
    /\ CompletedRun(1)
    /\ requests = MaxRequests

\* The entries of the last analyze_priorities or calculate_urgency result,
\* and the list they were computed from.
RankingResults ==
    {r \in toolResult : r.toolName \in {"analyze_priorities", "calculate_urgency"}}

RankedTasks(r) == The(r.result.data).rankedTasks

RankingInput(r) == IF r.params = {} THEN store ELSE The(r.params)

\* C25: rankedTasks has one entry for every task of the input and no other,
\* the scores never increase along it, and two tasks with the same score are
\* in the order they had in the input.
C25_RankingIsStableSortedPermutation ==
    \A r \in RankingResults :
        LET input == RankingInput(r)
            ranked == RankedTasks(r)
            At(i) == CHOOSE j \in 1..Len(ranked) : ranked[j].id = input[i].id
        IN  /\ r.result.success
            /\ Len(ranked) = Len(input)
            /\ \A i \in 1..Len(input) :
                  /\ Cardinality({j \in 1..Len(ranked) : ranked[j].id = input[i].id}) = 1
                  /\ ranked[At(i)].priority = input[i].priority
                  /\ ranked[At(i)].status = input[i].status
                  /\ ranked[At(i)].dueDate = input[i].dueDate
                  /\ ranked[At(i)].title = input[i].title
            /\ \A i, j \in 1..Len(ranked) :
                  i < j => ranked[i].urgencyScore >= ranked[j].urgencyScore
            /\ \A i, j \in 1..Len(input) :
                  (i < j /\ ranked[At(i)].urgencyScore = ranked[At(j)].urgencyScore)
                  => At(i) < At(j)

C25_Witness ==
    \E r \in RankingResults :
        /\ r.params = {}
        /\ Len(store) = MaxTasks
        /\ \E i, j \in 1..Len(store) :
              /\ i < j
              /\ RankedTasks(r)[1].id = store[j].id
              /\ RankedTasks(r)[2].urgencyScore = RankedTasks(r)[3].urgencyScore
              /\ RankedTasks(r)[2].id # store[i].id

\* C26: the score of a ranked task is 4, 3, 2 or 1 for urgent, high, medium
\* or low, plus 2 when its due date is before now, plus 1 when its due date
\* is after now and less than 24 hours away; never both additions, exactly
\* the weight without a due date, always within 1..6, and 6 for an urgent
\* task whose due date has passed.
C26_UrgencyScore ==
    \A r \in RankingResults :
        \A i \in 1..Len(RankedTasks(r)) :
            LET e == RankedTasks(r)[i]
                weight == CASE e.priority = "urgent" -> 4
                            [] e.priority = "high" -> 3
                            [] e.priority = "medium" -> 2
                            [] e.priority = "low" -> 1
                past == \E d \in e.dueDate : d < clock
                soon == \E d \in e.dueDate : d > clock /\ d - clock < 24 * 60 * 60 * 1000
            IN  /\ e.urgencyScore = weight + (IF past THEN 2 ELSE 0) + (IF soon THEN 1 ELSE 0)
                /\ e.urgencyScore <= weight + 2
                /\ e.dueDate = {} => e.urgencyScore = weight
                /\ e.urgencyScore \in 1..6
                /\ (e.priority = "urgent" /\ past) => e.urgencyScore = 6

C26_Witness ==
    /\ clock = HourMs
    /\ \E r \in RankingResults :
          /\ r.toolName = "analyze_priorities"
          /\ \E i \in 1..Len(RankedTasks(r)) :
                /\ RankedTasks(r)[i].priority = "urgent"
                /\ RankedTasks(r)[i].dueDate = {clock + 24 * 60 * 60 * 1000 - 1}
                /\ RankedTasks(r)[i].urgencyScore = 5

TagSet(task) == {task.tags[i] : i \in 1..Len(task.tags)}

\* C27: find_dependencies fails without data for an id no task has;
\* otherwise it names exactly the other tasks that have a tag in common with
\* the queried one, each once, each with the tags the two have in common.
C27_FindDependencies ==
    \A r \in toolResult :
        r.toolName = "find_dependencies"
        => LET found == {i \in 1..Len(store) : store[i].id = r.params}
           IN  IF found = {}
               THEN /\ ~r.result.success
                    /\ r.result.data = {}
               ELSE LET task == store[CHOOSE i \in found : TRUE]
                        related == The(r.result.data).relatedTasks
                        others == {i \in 1..Len(store) :
                                      /\ store[i].id # r.params
                                      /\ TagSet(store[i]) \cap TagSet(task) # {}}
                    IN  /\ r.result.success
                        /\ {related[k].id : k \in 1..Len(related)}
                              = {store[i].id : i \in others}
                        /\ Len(related) = Cardinality(others)
                        /\ \A k \in 1..Len(related) :
                              /\ related[k].id # r.params
                              /\ \E i \in others :
                                    /\ store[i].id = related[k].id
                                    /\ {related[k].sharedTags[n] :
                                           n \in 1..Len(related[k].sharedTags)}
                                         = TagSet(store[i]) \cap TagSet(task)
                              /\ related[k].sharedTags # << >>

C27_Witness ==
    \E r \in toolResult :
        /\ r.toolName = "find_dependencies"
        /\ r.result.success
        /\ Len(store) = MaxTasks
        /\ Len(The(r.result.data).relatedTasks) = 1
        /\ The(r.result.data).relatedTasks[1].sharedTags = <<"home">>

C29_QueryTasksWithinLimit ==
    \A r \in toolResult :
        r.toolName = "query_tasks"
        => LET data == The(r.result.data)
               limit == IF r.params.limit = {} THEN 100 ELSE The(r.params.limit)
           IN  /\ Len(data.tasks) <= Max(0, limit)
               /\ \A k \in 1..Len(data.tasks) :
                     /\ r.params.status # {} => data.tasks[k].status \in r.params.status
                     /\ r.params.priority # {}
                          => data.tasks[k].priority \in r.params.priority
               /\ data.count = Len(data.tasks)

\* C40: the context a call works on carries the session id under which the
\* engine logs the steps of that call and which the result of the call
\* carries.
C40_SingleSessionIdentity ==
    \A c \in Slots :
        calls[c].context # {}
        => /\ The(calls[c].context).sessionId = calls[c].sessionId
           /\ \A k \in 1..Len(calls[c].recorded) :
                 calls[c].recorded[k].sessionId = The(calls[c].context).sessionId
           /\ CompletedRun(c) => ResultOf(c).sessionId = The(calls[c].context).sessionId

\* C35: the registry holds every name once and one tool object under each
\* name; the object under a name a caller registered is the one registered
\* last, and it is the one execute runs; registering under a name that is
\* present leaves the names as they were.
C35_RegisterLastWriteWins ==
    /\ [](/\ \A i, j \in 1..Len(tools) : tools[i] = tools[j] => i = j
          /\ DOMAIN toolImpl = {tools[i] : i \in 1..Len(tools)}
          /\ \A n \in DOMAIN registered : toolImpl[n] = registered[n]
          /\ \A r \in toolResult :
                /\ r.toolName \in DOMAIN r.latest => r.ran = {r.latest[r.toolName]}
                /\ r.ran = {} <=> ~HasTool(r.available, r.toolName))
    /\ [][\A n \in DOMAIN toolImpl :
             /\ n \in DOMAIN toolImpl'
             /\ (registered' # registered /\ n \in DOMAIN registered'
                 /\ (n \notin DOMAIN registered \/ registered'[n] # registered[n]))
                => tools' = tools]_vars

C35_Witness ==
    /\ Len(tools) = Len(BuiltInTools)
    /\ "query_tasks" \in DOMAIN registered
    /\ registered["query_tasks"] = 2
    /\ \E r \in toolResult :
          /\ r.toolName = "query_tasks"
          /\ r.ran = {2}
          /\ r.outcome = ToolReturns

\* C36: a task of the store that analyze_priorities or calculate_urgency
\* ranks has the 2 points for being overdue exactly when find_overdue, asked
\* at the same time, returns that task.
C36_OverdueAgreement ==
    \A r \in RankingResults :
        r.params = {}
        => LET overdue == The(findOverdue(clock).data).tasks
           IN  \A i \in 1..Len(RankedTasks(r)) :
                  LET e == RankedTasks(r)[i]
                      boosted == e.urgencyScore >= priorityWeights[e.priority] + OverdueBoost
                  IN  boosted <=> \E k \in 1..Len(overdue) : overdue[k].id = e.id

\* C32: execute never rejects; its response names the agent and the action
\* asked for; for an action the agent does not have, the handler is not
\* called and the response is a failure whose error names every action the
\* agent has; an Error thrown by the handler becomes a failure with the
\* message of the Error; what the handler returns becomes a success.
C32_ExecuteReportsFailuresAsValues ==
    \A r \in agentResponse :
        LET own == Capabilities(r.agent)
            has == \E i \in 1..Len(own) : own[i] = r.action
        IN  /\ ~r.threw
            /\ r.response.agent = r.agent
            /\ r.response.action = r.action
            /\ ~has => /\ ~r.handled
                       /\ ~r.response.success
                       /\ \E e \in r.response.error :
                             /\ Contains(e, "not supported")
                             /\ \A i \in 1..Len(own) : Contains(e, own[i])
            /\ has => r.handled
            /\ r.outcome = "throwsError" => /\ ~r.response.success
                                            /\ r.response.error = {r.message}
            /\ r.outcome = "returns" => /\ r.response.success
                                        /\ r.response.error = {}

C32_Witness ==
    \E r \in agentResponse :
        /\ r.agent = "notification-agent"
        /\ r.action = "delete"
        /\ r.response.error
             = {"Action 'delete' not supported. Available: notify, list, clear"}
        /\ Len(store) = 2
        /\ Len(notifications) = MaxNotifications

\* The status changes the transition table allows.
AllowedTransitions ==
    {<<"pending", "in_progress">>, <<"pending", "cancelled">>,
     <<"in_progress", "done">>, <<"in_progress", "pending">>,
     <<"in_progress", "cancelled">>, <<"done", "pending">>,
     <<"cancelled", "pending">>}

\* C33: every change of a task's status is one the transition table allows,
\* and an update that asks for another one fails and leaves the tasks as
\* they were.
C33_StatusTransitions ==
    [][/\ \A i \in 1..Len(store), j \in 1..Len(store') :
             (store[i].id = store'[j].id /\ store[i].status # store'[j].status)
             => <<store[i].status, store'[j].status>> \in AllowedTransitions
       /\ \A r \in agentResponse' :
             (r.agent = "task-agent" /\ r.action = "update")
             => \A i \in 1..Len(store), id \in r.params.id, status \in r.params.status :
                   (/\ store[i].id = id
                    /\ store[i].status # status
                    /\ <<store[i].status, status>> \notin AllowedTransitions)
                   => ~r.response.success /\ store' = store]_vars

\* C34: get, update and delete of the task agent with an id no task has
\* fail with an error that says "not found" and change neither the tasks nor
\* the notifications; delete with an id a task has succeeds and takes that
\* task, and no other, out of the store.
C34_MissingTaskAndDelete ==
    [][\A r \in agentResponse' :
          (r.agent = "task-agent" /\ r.action \in {"get", "update", "delete"})
          => \A id \in r.params.id :
                LET present == \E i \in 1..Len(store) : store[i].id = id
                IN  /\ ~present
                         => /\ ~r.response.success
                            /\ \E e \in r.response.error : Contains(e, "not found")
                            /\ store' = store
                            /\ notifications' = notifications
                    /\ (present /\ r.action = "delete")
                         => /\ r.response.success
                            /\ store' = SelectSeq(store, LAMBDA t : t.id # id)
                            /\ Len(store') = Len(store) - 1
                            /\ \A j \in 1..Len(store') : store'[j].id # id]_vars

C34_Witness ==
    \E r \in agentResponse :
        /\ r.agent = "task-agent"
        /\ r.action = "delete"
        /\ r.params.id = {11}
        /\ r.response.success
        /\ Len(store) = 1
        /\ store[1].id = 12
        /\ store[1].status = "done"

\* C39: every notification names a task of the store; a delete of the task
\* agent that succeeds takes away the notifications of its task and no
\* other; a notify for an id no task has fails and adds nothing.
C39_NotificationIntegrity ==
    /\ [](\A k \in 1..Len(notifications) :
            \E i \in 1..Len(store) : store[i].id = notifications[k].taskId)
    /\ [][\A r \in agentResponse' :
             /\ (r.agent = "task-agent" /\ r.action = "delete" /\ r.response.success)
                => \A id \in r.params.id :
                      notifications' = SelectSeq(notifications, LAMBDA n : n.taskId # id)
             /\ (r.agent = "notification-agent" /\ r.action = "notify")
                => \A id \in r.params.id :
                      (\A i \in 1..Len(store) : store[i].id # id)
                      => ~r.response.success /\ notifications' = notifications]_vars

C39_Witness ==
    \E r \in agentResponse :
        /\ r.agent = "task-agent"
        /\ r.action = "delete"
        /\ r.params.id = {12}
        /\ r.response.success
        /\ Len(store) = 1
        /\ Len(notifications) = 1
        /\ notifications[1].read

\* C31: what a caller does to the array it got from getCurrentSteps() or
\* from a result - push, pop, reverse - leaves the session history as it
\* was: the history of a call is the steps the call recorded, and so are
\* the steps of its result.
C31_StepsAreACopy ==
    /\ [](/\ (calls[1].pc \notin {"idle", "done"})
              => getCurrentSteps = calls[1].recorded
          /\ (calls[1].pc = "done" /\ calls[1].outcome = "returned")
              => The(The(calls[1].response).data).steps = calls[1].recorded)
    /\ [][\A before \in held, after \in held' :
             after.edits = before.edits + 1
             => getCurrentSteps' = getCurrentSteps]_vars

C31_Witness ==
    /\ \E array \in held :
          /\ array.edits = MaxEdits
          /\ array.items # << >>
          /\ array.items[Len(array.items)] = ForgedStep
    /\ requests = 2
    /\ calls[1].pc = "done"
    /\ calls[1].outcome = "returned"
    /\ Len(The(The(calls[1].response).data).steps) >= 5
    /\ The(The(calls[1].response).data).steps = calls[1].recorded

\* C38: an agent whose getter has been called is in the registry that
\* getAgentRegistry() returns; no two agents of a registry have the same
\* name; a registration under a name the registry has throws and leaves the
\* registry as it was.
C38_GettersKeepAgentsRegistered ==
    /\ [](/\ singletons.coordinatorInstance
              => \E i \in 1..Len(CurrentAgents(singletons)) :
                    CurrentAgents(singletons)[i] = TheCoordinator
          /\ singletons.reasoningAgentInstance
              => \E i \in 1..Len(CurrentAgents(singletons)) :
                    CurrentAgents(singletons)[i] = TheReasoningAgent
          /\ \A i, j \in 1..Len(CurrentAgents(singletons)) :
                CurrentAgents(singletons)[i].name = CurrentAgents(singletons)[j].name
                => i = j)
    /\ [][\A name \in singletons'.last.name :
             hasAgent(CurrentAgents(singletons), name)
             => /\ singletons'.last.threw = {"Agent already registered: " \o name}
                /\ CurrentAgents(singletons') = CurrentAgents(singletons)]_vars

\* The sum of a count per key.
RECURSIVE SumOver(_, _)
SumOver(counts, keys) ==
    IF keys = {}
    THEN 0
    ELSE LET key == CHOOSE k \in keys : TRUE
         IN  counts[key] + SumOver(counts, keys \ {key})

\* C37: in the statistics of every context a call holds, the counts by
\* status add up to the total, the counts by priority add up to the total,
\* and the overdue count is at most the total - for a store of more than
\* 1000 tasks too.
C37_StatsConsistent ==
    \A c \in Slots :
        \A context \in calls[c].context :
            /\ SumOver(context.stats.byStatus, Statuses) = context.stats.total
            /\ SumOver(context.stats.byPriority, Priorities) = context.stats.total
            /\ context.stats.overdueCount <= context.stats.total

====
